---- MODULE Spec2Model ----
(***************************************************************************)
(* Model of stage0/replace.py: main loads a CSV table of directory line    *)
(* counts (load_line_counts) and rewrites the lines of a template file     *)
(* that have the shape  label = "directory"rest  (process_file).           *)
(*                                                                         *)
(* A Python str is a sequence of one-character strings.  A character that  *)
(* is not ASCII, or has no escape, is written by its code point, "U+00B2"  *)
(* (the backquote too: "U+0060").                                          *)
(* The input and output paths are assumed to differ.  When the process     *)
(* exits its memory is gone: the table and the lines read are empty in the *)
(* exited state, and the files, the two streams and the status remain.     *)
(***************************************************************************)
EXTENDS Integers, Sequences, FiniteSets, TLC

VARIABLES
    pc,          \* position of the run in main / load_line_counts / process_file
    argc,        \* len(sys.argv)
    csv_rows,    \* load_line_counts: the rows `reader` yields, in file order
    csv_raises,  \* load_line_counts: what ends the rows of `reader`
    row_idx,     \* load_line_counts: number of rows the loop has consumed
    line_counts, \* the table: a function from directory strings to integers
    in_content,  \* process_file: the characters of the input file as stored
    in_lines,    \* process_file: the lines `for line in infile` yields
    line_idx,    \* process_file: number of lines the loop has consumed
    out_file,    \* the output file: NoFile, or the chunks written to it so far
    stdout,      \* notices printed to standard output
    stderr,      \* notices printed to the diagnostic stream
    status       \* exit status of the process, 0 while it runs

vars == <<pc, argc, csv_rows, csv_raises, row_idx, line_counts, in_content, in_lines,
          line_idx, out_file, stdout, stderr, status>>

\* ------------------------------------------------------------------ bounds

MaxRows == 3
MaxLines == 2

\* ------------------------------------------------------------- characters

NL == "\n"
CR == "\r"
QUOTE == "\""
SUP2 == "U+00B2"

\* The digits str() writes.
DecimalDigits == <<"0", "1", "2", "3", "4", "5", "6", "7", "8", "9">>

\* The characters str.upper() changes, each with what it becomes: one
\* character, or two or three ("U+00DF" becomes "SS").
UpperCaseOf ==
    {<<"a", <<"A">>>>, <<"b", <<"B">>>>, <<"c", <<"C">>>>, <<"d", <<"D">>>>,
     <<"e", <<"E">>>>, <<"f", <<"F">>>>, <<"g", <<"G">>>>, <<"h", <<"H">>>>,
     <<"i", <<"I">>>>, <<"j", <<"J">>>>, <<"k", <<"K">>>>, <<"l", <<"L">>>>,
     <<"m", <<"M">>>>, <<"n", <<"N">>>>, <<"o", <<"O">>>>, <<"p", <<"P">>>>,
     <<"q", <<"Q">>>>, <<"r", <<"R">>>>, <<"s", <<"S">>>>, <<"t", <<"T">>>>,
     <<"u", <<"U">>>>, <<"v", <<"V">>>>, <<"w", <<"W">>>>, <<"x", <<"X">>>>,
     <<"y", <<"Y">>>>, <<"z", <<"Z">>>>, <<"U+00B5", <<"U+039C">>>>,
     <<"U+00DF", <<"S", "S">>>>, <<"U+00E0", <<"U+00C0">>>>, <<"U+00E1",
     <<"U+00C1">>>>, <<"U+00E2", <<"U+00C2">>>>, <<"U+00E3", <<"U+00C3">>>>,
     <<"U+00E4", <<"U+00C4">>>>, <<"U+00E5", <<"U+00C5">>>>, <<"U+00E6",
     <<"U+00C6">>>>, <<"U+00E7", <<"U+00C7">>>>, <<"U+00E8", <<"U+00C8">>>>,
     <<"U+00E9", <<"U+00C9">>>>, <<"U+00EA", <<"U+00CA">>>>, <<"U+00EB",
     <<"U+00CB">>>>, <<"U+00EC", <<"U+00CC">>>>, <<"U+00ED", <<"U+00CD">>>>,
     <<"U+00EE", <<"U+00CE">>>>, <<"U+00EF", <<"U+00CF">>>>, <<"U+00F0",
     <<"U+00D0">>>>, <<"U+00F1", <<"U+00D1">>>>, <<"U+00F2", <<"U+00D2">>>>,
     <<"U+00F3", <<"U+00D3">>>>, <<"U+00F4", <<"U+00D4">>>>, <<"U+00F5",
     <<"U+00D5">>>>, <<"U+00F6", <<"U+00D6">>>>, <<"U+00F8", <<"U+00D8">>>>,
     <<"U+00F9", <<"U+00D9">>>>, <<"U+00FA", <<"U+00DA">>>>, <<"U+00FB",
     <<"U+00DB">>>>, <<"U+00FC", <<"U+00DC">>>>, <<"U+00FD", <<"U+00DD">>>>,
     <<"U+00FE", <<"U+00DE">>>>, <<"U+00FF", <<"U+0178">>>>, <<"U+0101",
     <<"U+0100">>>>, <<"U+0103", <<"U+0102">>>>, <<"U+0105", <<"U+0104">>>>,
     <<"U+0107", <<"U+0106">>>>, <<"U+0109", <<"U+0108">>>>, <<"U+010B",
     <<"U+010A">>>>, <<"U+010D", <<"U+010C">>>>, <<"U+010F", <<"U+010E">>>>,
     <<"U+0111", <<"U+0110">>>>, <<"U+0113", <<"U+0112">>>>, <<"U+0115",
     <<"U+0114">>>>, <<"U+0117", <<"U+0116">>>>, <<"U+0119", <<"U+0118">>>>,
     <<"U+011B", <<"U+011A">>>>, <<"U+011D", <<"U+011C">>>>, <<"U+011F",
     <<"U+011E">>>>, <<"U+0121", <<"U+0120">>>>, <<"U+0123", <<"U+0122">>>>,
     <<"U+0125", <<"U+0124">>>>, <<"U+0127", <<"U+0126">>>>, <<"U+0129",
     <<"U+0128">>>>, <<"U+012B", <<"U+012A">>>>, <<"U+012D", <<"U+012C">>>>,
     <<"U+012F", <<"U+012E">>>>, <<"U+0131", <<"I">>>>, <<"U+0133",
     <<"U+0132">>>>, <<"U+0135", <<"U+0134">>>>, <<"U+0137", <<"U+0136">>>>,
     <<"U+013A", <<"U+0139">>>>, <<"U+013C", <<"U+013B">>>>, <<"U+013E",
     <<"U+013D">>>>, <<"U+0140", <<"U+013F">>>>, <<"U+0142", <<"U+0141">>>>,
     <<"U+0144", <<"U+0143">>>>, <<"U+0146", <<"U+0145">>>>, <<"U+0148",
     <<"U+0147">>>>, <<"U+0149", <<"U+02BC", "N">>>>, <<"U+014B",
     <<"U+014A">>>>, <<"U+014D", <<"U+014C">>>>, <<"U+014F", <<"U+014E">>>>,
     <<"U+0151", <<"U+0150">>>>, <<"U+0153", <<"U+0152">>>>, <<"U+0155",
     <<"U+0154">>>>, <<"U+0157", <<"U+0156">>>>, <<"U+0159", <<"U+0158">>>>,
     <<"U+015B", <<"U+015A">>>>, <<"U+015D", <<"U+015C">>>>, <<"U+015F",
     <<"U+015E">>>>, <<"U+0161", <<"U+0160">>>>, <<"U+0163", <<"U+0162">>>>,
     <<"U+0165", <<"U+0164">>>>, <<"U+0167", <<"U+0166">>>>, <<"U+0169",
     <<"U+0168">>>>, <<"U+016B", <<"U+016A">>>>, <<"U+016D", <<"U+016C">>>>,
     <<"U+016F", <<"U+016E">>>>, <<"U+0171", <<"U+0170">>>>, <<"U+0173",
     <<"U+0172">>>>, <<"U+0175", <<"U+0174">>>>, <<"U+0177", <<"U+0176">>>>,
     <<"U+017A", <<"U+0179">>>>, <<"U+017C", <<"U+017B">>>>, <<"U+017E",
     <<"U+017D">>>>, <<"U+017F", <<"S">>>>, <<"U+0180", <<"U+0243">>>>,
     <<"U+0183", <<"U+0182">>>>, <<"U+0185", <<"U+0184">>>>, <<"U+0188",
     <<"U+0187">>>>, <<"U+018C", <<"U+018B">>>>, <<"U+0192", <<"U+0191">>>>,
     <<"U+0195", <<"U+01F6">>>>, <<"U+0199", <<"U+0198">>>>, <<"U+019A",
     <<"U+023D">>>>, <<"U+019E", <<"U+0220">>>>, <<"U+01A1", <<"U+01A0">>>>,
     <<"U+01A3", <<"U+01A2">>>>, <<"U+01A5", <<"U+01A4">>>>, <<"U+01A8",
     <<"U+01A7">>>>, <<"U+01AD", <<"U+01AC">>>>, <<"U+01B0", <<"U+01AF">>>>,
     <<"U+01B4", <<"U+01B3">>>>, <<"U+01B6", <<"U+01B5">>>>, <<"U+01B9",
     <<"U+01B8">>>>, <<"U+01BD", <<"U+01BC">>>>, <<"U+01BF", <<"U+01F7">>>>,
     <<"U+01C5", <<"U+01C4">>>>, <<"U+01C6", <<"U+01C4">>>>, <<"U+01C8",
     <<"U+01C7">>>>, <<"U+01C9", <<"U+01C7">>>>, <<"U+01CB", <<"U+01CA">>>>,
     <<"U+01CC", <<"U+01CA">>>>, <<"U+01CE", <<"U+01CD">>>>, <<"U+01D0",
     <<"U+01CF">>>>, <<"U+01D2", <<"U+01D1">>>>, <<"U+01D4", <<"U+01D3">>>>,
     <<"U+01D6", <<"U+01D5">>>>, <<"U+01D8", <<"U+01D7">>>>, <<"U+01DA",
     <<"U+01D9">>>>, <<"U+01DC", <<"U+01DB">>>>, <<"U+01DD", <<"U+018E">>>>,
     <<"U+01DF", <<"U+01DE">>>>, <<"U+01E1", <<"U+01E0">>>>, <<"U+01E3",
     <<"U+01E2">>>>, <<"U+01E5", <<"U+01E4">>>>, <<"U+01E7", <<"U+01E6">>>>,
     <<"U+01E9", <<"U+01E8">>>>, <<"U+01EB", <<"U+01EA">>>>, <<"U+01ED",
     <<"U+01EC">>>>, <<"U+01EF", <<"U+01EE">>>>, <<"U+01F0", <<"J",
     "U+030C">>>>, <<"U+01F2", <<"U+01F1">>>>, <<"U+01F3", <<"U+01F1">>>>,
     <<"U+01F5", <<"U+01F4">>>>, <<"U+01F9", <<"U+01F8">>>>, <<"U+01FB",
     <<"U+01FA">>>>, <<"U+01FD", <<"U+01FC">>>>, <<"U+01FF", <<"U+01FE">>>>,
     <<"U+0201", <<"U+0200">>>>, <<"U+0203", <<"U+0202">>>>, <<"U+0205",
     <<"U+0204">>>>, <<"U+0207", <<"U+0206">>>>, <<"U+0209", <<"U+0208">>>>,
     <<"U+020B", <<"U+020A">>>>, <<"U+020D", <<"U+020C">>>>, <<"U+020F",
     <<"U+020E">>>>, <<"U+0211", <<"U+0210">>>>, <<"U+0213", <<"U+0212">>>>,
     <<"U+0215", <<"U+0214">>>>, <<"U+0217", <<"U+0216">>>>, <<"U+0219",
     <<"U+0218">>>>, <<"U+021B", <<"U+021A">>>>, <<"U+021D", <<"U+021C">>>>,
     <<"U+021F", <<"U+021E">>>>, <<"U+0223", <<"U+0222">>>>, <<"U+0225",
     <<"U+0224">>>>, <<"U+0227", <<"U+0226">>>>, <<"U+0229", <<"U+0228">>>>,
     <<"U+022B", <<"U+022A">>>>, <<"U+022D", <<"U+022C">>>>, <<"U+022F",
     <<"U+022E">>>>, <<"U+0231", <<"U+0230">>>>, <<"U+0233", <<"U+0232">>>>,
     <<"U+023C", <<"U+023B">>>>, <<"U+023F", <<"U+2C7E">>>>, <<"U+0240",
     <<"U+2C7F">>>>, <<"U+0242", <<"U+0241">>>>, <<"U+0247", <<"U+0246">>>>,
     <<"U+0249", <<"U+0248">>>>, <<"U+024B", <<"U+024A">>>>, <<"U+024D",
     <<"U+024C">>>>, <<"U+024F", <<"U+024E">>>>, <<"U+0250", <<"U+2C6F">>>>,
     <<"U+0251", <<"U+2C6D">>>>, <<"U+0252", <<"U+2C70">>>>, <<"U+0253",
     <<"U+0181">>>>, <<"U+0254", <<"U+0186">>>>, <<"U+0256", <<"U+0189">>>>,
     <<"U+0257", <<"U+018A">>>>, <<"U+0259", <<"U+018F">>>>, <<"U+025B",
     <<"U+0190">>>>, <<"U+025C", <<"U+A7AB">>>>, <<"U+0260", <<"U+0193">>>>,
     <<"U+0261", <<"U+A7AC">>>>, <<"U+0263", <<"U+0194">>>>, <<"U+0265",
     <<"U+A78D">>>>, <<"U+0266", <<"U+A7AA">>>>, <<"U+0268", <<"U+0197">>>>,
     <<"U+0269", <<"U+0196">>>>, <<"U+026A", <<"U+A7AE">>>>, <<"U+026B",
     <<"U+2C62">>>>, <<"U+026C", <<"U+A7AD">>>>, <<"U+026F", <<"U+019C">>>>,
     <<"U+0271", <<"U+2C6E">>>>, <<"U+0272", <<"U+019D">>>>, <<"U+0275",
     <<"U+019F">>>>, <<"U+027D", <<"U+2C64">>>>, <<"U+0280", <<"U+01A6">>>>,
     <<"U+0282", <<"U+A7C5">>>>, <<"U+0283", <<"U+01A9">>>>, <<"U+0287",
     <<"U+A7B1">>>>, <<"U+0288", <<"U+01AE">>>>, <<"U+0289", <<"U+0244">>>>,
     <<"U+028A", <<"U+01B1">>>>, <<"U+028B", <<"U+01B2">>>>, <<"U+028C",
     <<"U+0245">>>>, <<"U+0292", <<"U+01B7">>>>, <<"U+029D", <<"U+A7B2">>>>,
     <<"U+029E", <<"U+A7B0">>>>, <<"U+0345", <<"U+0399">>>>, <<"U+0371",
     <<"U+0370">>>>, <<"U+0373", <<"U+0372">>>>, <<"U+0377", <<"U+0376">>>>,
     <<"U+037B", <<"U+03FD">>>>, <<"U+037C", <<"U+03FE">>>>, <<"U+037D",
     <<"U+03FF">>>>, <<"U+0390", <<"U+0399", "U+0308", "U+0301">>>>,
     <<"U+03AC", <<"U+0386">>>>, <<"U+03AD", <<"U+0388">>>>, <<"U+03AE",
     <<"U+0389">>>>, <<"U+03AF", <<"U+038A">>>>, <<"U+03B0", <<"U+03A5",
     "U+0308", "U+0301">>>>, <<"U+03B1", <<"U+0391">>>>, <<"U+03B2",
     <<"U+0392">>>>, <<"U+03B3", <<"U+0393">>>>, <<"U+03B4", <<"U+0394">>>>,
     <<"U+03B5", <<"U+0395">>>>, <<"U+03B6", <<"U+0396">>>>, <<"U+03B7",
     <<"U+0397">>>>, <<"U+03B8", <<"U+0398">>>>, <<"U+03B9", <<"U+0399">>>>,
     <<"U+03BA", <<"U+039A">>>>, <<"U+03BB", <<"U+039B">>>>, <<"U+03BC",
     <<"U+039C">>>>, <<"U+03BD", <<"U+039D">>>>, <<"U+03BE", <<"U+039E">>>>,
     <<"U+03BF", <<"U+039F">>>>, <<"U+03C0", <<"U+03A0">>>>, <<"U+03C1",
     <<"U+03A1">>>>, <<"U+03C2", <<"U+03A3">>>>, <<"U+03C3", <<"U+03A3">>>>,
     <<"U+03C4", <<"U+03A4">>>>, <<"U+03C5", <<"U+03A5">>>>, <<"U+03C6",
     <<"U+03A6">>>>, <<"U+03C7", <<"U+03A7">>>>, <<"U+03C8", <<"U+03A8">>>>,
     <<"U+03C9", <<"U+03A9">>>>, <<"U+03CA", <<"U+03AA">>>>, <<"U+03CB",
     <<"U+03AB">>>>, <<"U+03CC", <<"U+038C">>>>, <<"U+03CD", <<"U+038E">>>>,
     <<"U+03CE", <<"U+038F">>>>, <<"U+03D0", <<"U+0392">>>>, <<"U+03D1",
     <<"U+0398">>>>, <<"U+03D5", <<"U+03A6">>>>, <<"U+03D6", <<"U+03A0">>>>,
     <<"U+03D7", <<"U+03CF">>>>, <<"U+03D9", <<"U+03D8">>>>, <<"U+03DB",
     <<"U+03DA">>>>, <<"U+03DD", <<"U+03DC">>>>, <<"U+03DF", <<"U+03DE">>>>,
     <<"U+03E1", <<"U+03E0">>>>, <<"U+03E3", <<"U+03E2">>>>, <<"U+03E5",
     <<"U+03E4">>>>, <<"U+03E7", <<"U+03E6">>>>, <<"U+03E9", <<"U+03E8">>>>,
     <<"U+03EB", <<"U+03EA">>>>, <<"U+03ED", <<"U+03EC">>>>, <<"U+03EF",
     <<"U+03EE">>>>, <<"U+03F0", <<"U+039A">>>>, <<"U+03F1", <<"U+03A1">>>>,
     <<"U+03F2", <<"U+03F9">>>>, <<"U+03F3", <<"U+037F">>>>, <<"U+03F5",
     <<"U+0395">>>>, <<"U+03F8", <<"U+03F7">>>>, <<"U+03FB", <<"U+03FA">>>>,
     <<"U+0430", <<"U+0410">>>>, <<"U+0431", <<"U+0411">>>>, <<"U+0432",
     <<"U+0412">>>>, <<"U+0433", <<"U+0413">>>>, <<"U+0434", <<"U+0414">>>>,
     <<"U+0435", <<"U+0415">>>>, <<"U+0436", <<"U+0416">>>>, <<"U+0437",
     <<"U+0417">>>>, <<"U+0438", <<"U+0418">>>>, <<"U+0439", <<"U+0419">>>>,
     <<"U+043A", <<"U+041A">>>>, <<"U+043B", <<"U+041B">>>>, <<"U+043C",
     <<"U+041C">>>>, <<"U+043D", <<"U+041D">>>>, <<"U+043E", <<"U+041E">>>>,
     <<"U+043F", <<"U+041F">>>>, <<"U+0440", <<"U+0420">>>>, <<"U+0441",
     <<"U+0421">>>>, <<"U+0442", <<"U+0422">>>>, <<"U+0443", <<"U+0423">>>>,
     <<"U+0444", <<"U+0424">>>>, <<"U+0445", <<"U+0425">>>>, <<"U+0446",
     <<"U+0426">>>>, <<"U+0447", <<"U+0427">>>>, <<"U+0448", <<"U+0428">>>>,
     <<"U+0449", <<"U+0429">>>>, <<"U+044A", <<"U+042A">>>>, <<"U+044B",
     <<"U+042B">>>>, <<"U+044C", <<"U+042C">>>>, <<"U+044D", <<"U+042D">>>>,
     <<"U+044E", <<"U+042E">>>>, <<"U+044F", <<"U+042F">>>>, <<"U+0450",
     <<"U+0400">>>>, <<"U+0451", <<"U+0401">>>>, <<"U+0452", <<"U+0402">>>>,
     <<"U+0453", <<"U+0403">>>>, <<"U+0454", <<"U+0404">>>>, <<"U+0455",
     <<"U+0405">>>>, <<"U+0456", <<"U+0406">>>>, <<"U+0457", <<"U+0407">>>>,
     <<"U+0458", <<"U+0408">>>>, <<"U+0459", <<"U+0409">>>>, <<"U+045A",
     <<"U+040A">>>>, <<"U+045B", <<"U+040B">>>>, <<"U+045C", <<"U+040C">>>>,
     <<"U+045D", <<"U+040D">>>>, <<"U+045E", <<"U+040E">>>>, <<"U+045F",
     <<"U+040F">>>>, <<"U+0461", <<"U+0460">>>>, <<"U+0463", <<"U+0462">>>>,
     <<"U+0465", <<"U+0464">>>>, <<"U+0467", <<"U+0466">>>>, <<"U+0469",
     <<"U+0468">>>>, <<"U+046B", <<"U+046A">>>>, <<"U+046D", <<"U+046C">>>>,
     <<"U+046F", <<"U+046E">>>>, <<"U+0471", <<"U+0470">>>>, <<"U+0473",
     <<"U+0472">>>>, <<"U+0475", <<"U+0474">>>>, <<"U+0477", <<"U+0476">>>>,
     <<"U+0479", <<"U+0478">>>>, <<"U+047B", <<"U+047A">>>>, <<"U+047D",
     <<"U+047C">>>>, <<"U+047F", <<"U+047E">>>>, <<"U+0481", <<"U+0480">>>>,
     <<"U+048B", <<"U+048A">>>>, <<"U+048D", <<"U+048C">>>>, <<"U+048F",
     <<"U+048E">>>>, <<"U+0491", <<"U+0490">>>>, <<"U+0493", <<"U+0492">>>>,
     <<"U+0495", <<"U+0494">>>>, <<"U+0497", <<"U+0496">>>>, <<"U+0499",
     <<"U+0498">>>>, <<"U+049B", <<"U+049A">>>>, <<"U+049D", <<"U+049C">>>>,
     <<"U+049F", <<"U+049E">>>>, <<"U+04A1", <<"U+04A0">>>>, <<"U+04A3",
     <<"U+04A2">>>>, <<"U+04A5", <<"U+04A4">>>>, <<"U+04A7", <<"U+04A6">>>>,
     <<"U+04A9", <<"U+04A8">>>>, <<"U+04AB", <<"U+04AA">>>>, <<"U+04AD",
     <<"U+04AC">>>>, <<"U+04AF", <<"U+04AE">>>>, <<"U+04B1", <<"U+04B0">>>>,
     <<"U+04B3", <<"U+04B2">>>>, <<"U+04B5", <<"U+04B4">>>>, <<"U+04B7",
     <<"U+04B6">>>>, <<"U+04B9", <<"U+04B8">>>>, <<"U+04BB", <<"U+04BA">>>>,
     <<"U+04BD", <<"U+04BC">>>>, <<"U+04BF", <<"U+04BE">>>>, <<"U+04C2",
     <<"U+04C1">>>>, <<"U+04C4", <<"U+04C3">>>>, <<"U+04C6", <<"U+04C5">>>>,
     <<"U+04C8", <<"U+04C7">>>>, <<"U+04CA", <<"U+04C9">>>>, <<"U+04CC",
     <<"U+04CB">>>>, <<"U+04CE", <<"U+04CD">>>>, <<"U+04CF", <<"U+04C0">>>>,
     <<"U+04D1", <<"U+04D0">>>>, <<"U+04D3", <<"U+04D2">>>>, <<"U+04D5",
     <<"U+04D4">>>>, <<"U+04D7", <<"U+04D6">>>>, <<"U+04D9", <<"U+04D8">>>>,
     <<"U+04DB", <<"U+04DA">>>>, <<"U+04DD", <<"U+04DC">>>>, <<"U+04DF",
     <<"U+04DE">>>>, <<"U+04E1", <<"U+04E0">>>>, <<"U+04E3", <<"U+04E2">>>>,
     <<"U+04E5", <<"U+04E4">>>>, <<"U+04E7", <<"U+04E6">>>>, <<"U+04E9",
     <<"U+04E8">>>>, <<"U+04EB", <<"U+04EA">>>>, <<"U+04ED", <<"U+04EC">>>>,
     <<"U+04EF", <<"U+04EE">>>>, <<"U+04F1", <<"U+04F0">>>>, <<"U+04F3",
     <<"U+04F2">>>>, <<"U+04F5", <<"U+04F4">>>>, <<"U+04F7", <<"U+04F6">>>>,
     <<"U+04F9", <<"U+04F8">>>>, <<"U+04FB", <<"U+04FA">>>>, <<"U+04FD",
     <<"U+04FC">>>>, <<"U+04FF", <<"U+04FE">>>>, <<"U+0501", <<"U+0500">>>>,
     <<"U+0503", <<"U+0502">>>>, <<"U+0505", <<"U+0504">>>>, <<"U+0507",
     <<"U+0506">>>>, <<"U+0509", <<"U+0508">>>>, <<"U+050B", <<"U+050A">>>>,
     <<"U+050D", <<"U+050C">>>>, <<"U+050F", <<"U+050E">>>>, <<"U+0511",
     <<"U+0510">>>>, <<"U+0513", <<"U+0512">>>>, <<"U+0515", <<"U+0514">>>>,
     <<"U+0517", <<"U+0516">>>>, <<"U+0519", <<"U+0518">>>>, <<"U+051B",
     <<"U+051A">>>>, <<"U+051D", <<"U+051C">>>>, <<"U+051F", <<"U+051E">>>>,
     <<"U+0521", <<"U+0520">>>>, <<"U+0523", <<"U+0522">>>>, <<"U+0525",
     <<"U+0524">>>>, <<"U+0527", <<"U+0526">>>>, <<"U+0529", <<"U+0528">>>>,
     <<"U+052B", <<"U+052A">>>>, <<"U+052D", <<"U+052C">>>>, <<"U+052F",
     <<"U+052E">>>>, <<"U+0561", <<"U+0531">>>>, <<"U+0562", <<"U+0532">>>>,
     <<"U+0563", <<"U+0533">>>>, <<"U+0564", <<"U+0534">>>>, <<"U+0565",
     <<"U+0535">>>>, <<"U+0566", <<"U+0536">>>>, <<"U+0567", <<"U+0537">>>>,
     <<"U+0568", <<"U+0538">>>>, <<"U+0569", <<"U+0539">>>>, <<"U+056A",
     <<"U+053A">>>>, <<"U+056B", <<"U+053B">>>>, <<"U+056C", <<"U+053C">>>>,
     <<"U+056D", <<"U+053D">>>>, <<"U+056E", <<"U+053E">>>>, <<"U+056F",
     <<"U+053F">>>>, <<"U+0570", <<"U+0540">>>>, <<"U+0571", <<"U+0541">>>>,
     <<"U+0572", <<"U+0542">>>>, <<"U+0573", <<"U+0543">>>>, <<"U+0574",
     <<"U+0544">>>>, <<"U+0575", <<"U+0545">>>>, <<"U+0576", <<"U+0546">>>>,
     <<"U+0577", <<"U+0547">>>>, <<"U+0578", <<"U+0548">>>>, <<"U+0579",
     <<"U+0549">>>>, <<"U+057A", <<"U+054A">>>>, <<"U+057B", <<"U+054B">>>>,
     <<"U+057C", <<"U+054C">>>>, <<"U+057D", <<"U+054D">>>>, <<"U+057E",
     <<"U+054E">>>>, <<"U+057F", <<"U+054F">>>>, <<"U+0580", <<"U+0550">>>>,
     <<"U+0581", <<"U+0551">>>>, <<"U+0582", <<"U+0552">>>>, <<"U+0583",
     <<"U+0553">>>>, <<"U+0584", <<"U+0554">>>>, <<"U+0585", <<"U+0555">>>>,
     <<"U+0586", <<"U+0556">>>>, <<"U+0587", <<"U+0535", "U+0552">>>>,
     <<"U+10D0", <<"U+1C90">>>>, <<"U+10D1", <<"U+1C91">>>>, <<"U+10D2",
     <<"U+1C92">>>>, <<"U+10D3", <<"U+1C93">>>>, <<"U+10D4", <<"U+1C94">>>>,
     <<"U+10D5", <<"U+1C95">>>>, <<"U+10D6", <<"U+1C96">>>>, <<"U+10D7",
     <<"U+1C97">>>>, <<"U+10D8", <<"U+1C98">>>>, <<"U+10D9", <<"U+1C99">>>>,
     <<"U+10DA", <<"U+1C9A">>>>, <<"U+10DB", <<"U+1C9B">>>>, <<"U+10DC",
     <<"U+1C9C">>>>, <<"U+10DD", <<"U+1C9D">>>>, <<"U+10DE", <<"U+1C9E">>>>,
     <<"U+10DF", <<"U+1C9F">>>>, <<"U+10E0", <<"U+1CA0">>>>, <<"U+10E1",
     <<"U+1CA1">>>>, <<"U+10E2", <<"U+1CA2">>>>, <<"U+10E3", <<"U+1CA3">>>>,
     <<"U+10E4", <<"U+1CA4">>>>, <<"U+10E5", <<"U+1CA5">>>>, <<"U+10E6",
     <<"U+1CA6">>>>, <<"U+10E7", <<"U+1CA7">>>>, <<"U+10E8", <<"U+1CA8">>>>,
     <<"U+10E9", <<"U+1CA9">>>>, <<"U+10EA", <<"U+1CAA">>>>, <<"U+10EB",
     <<"U+1CAB">>>>, <<"U+10EC", <<"U+1CAC">>>>, <<"U+10ED", <<"U+1CAD">>>>,
     <<"U+10EE", <<"U+1CAE">>>>, <<"U+10EF", <<"U+1CAF">>>>, <<"U+10F0",
     <<"U+1CB0">>>>, <<"U+10F1", <<"U+1CB1">>>>, <<"U+10F2", <<"U+1CB2">>>>,
     <<"U+10F3", <<"U+1CB3">>>>, <<"U+10F4", <<"U+1CB4">>>>, <<"U+10F5",
     <<"U+1CB5">>>>, <<"U+10F6", <<"U+1CB6">>>>, <<"U+10F7", <<"U+1CB7">>>>,
     <<"U+10F8", <<"U+1CB8">>>>, <<"U+10F9", <<"U+1CB9">>>>, <<"U+10FA",
     <<"U+1CBA">>>>, <<"U+10FD", <<"U+1CBD">>>>, <<"U+10FE", <<"U+1CBE">>>>,
     <<"U+10FF", <<"U+1CBF">>>>, <<"U+13F8", <<"U+13F0">>>>, <<"U+13F9",
     <<"U+13F1">>>>, <<"U+13FA", <<"U+13F2">>>>, <<"U+13FB", <<"U+13F3">>>>,
     <<"U+13FC", <<"U+13F4">>>>, <<"U+13FD", <<"U+13F5">>>>, <<"U+1C80",
     <<"U+0412">>>>, <<"U+1C81", <<"U+0414">>>>, <<"U+1C82", <<"U+041E">>>>,
     <<"U+1C83", <<"U+0421">>>>, <<"U+1C84", <<"U+0422">>>>, <<"U+1C85",
     <<"U+0422">>>>, <<"U+1C86", <<"U+042A">>>>, <<"U+1C87", <<"U+0462">>>>,
     <<"U+1C88", <<"U+A64A">>>>, <<"U+1D79", <<"U+A77D">>>>, <<"U+1D7D",
     <<"U+2C63">>>>, <<"U+1D8E", <<"U+A7C6">>>>, <<"U+1E01", <<"U+1E00">>>>,
     <<"U+1E03", <<"U+1E02">>>>, <<"U+1E05", <<"U+1E04">>>>, <<"U+1E07",
     <<"U+1E06">>>>, <<"U+1E09", <<"U+1E08">>>>, <<"U+1E0B", <<"U+1E0A">>>>,
     <<"U+1E0D", <<"U+1E0C">>>>, <<"U+1E0F", <<"U+1E0E">>>>, <<"U+1E11",
     <<"U+1E10">>>>, <<"U+1E13", <<"U+1E12">>>>, <<"U+1E15", <<"U+1E14">>>>,
     <<"U+1E17", <<"U+1E16">>>>, <<"U+1E19", <<"U+1E18">>>>, <<"U+1E1B",
     <<"U+1E1A">>>>, <<"U+1E1D", <<"U+1E1C">>>>, <<"U+1E1F", <<"U+1E1E">>>>,
     <<"U+1E21", <<"U+1E20">>>>, <<"U+1E23", <<"U+1E22">>>>, <<"U+1E25",
     <<"U+1E24">>>>, <<"U+1E27", <<"U+1E26">>>>, <<"U+1E29", <<"U+1E28">>>>,
     <<"U+1E2B", <<"U+1E2A">>>>, <<"U+1E2D", <<"U+1E2C">>>>, <<"U+1E2F",
     <<"U+1E2E">>>>, <<"U+1E31", <<"U+1E30">>>>, <<"U+1E33", <<"U+1E32">>>>,
     <<"U+1E35", <<"U+1E34">>>>, <<"U+1E37", <<"U+1E36">>>>, <<"U+1E39",
     <<"U+1E38">>>>, <<"U+1E3B", <<"U+1E3A">>>>, <<"U+1E3D", <<"U+1E3C">>>>,
     <<"U+1E3F", <<"U+1E3E">>>>, <<"U+1E41", <<"U+1E40">>>>, <<"U+1E43",
     <<"U+1E42">>>>, <<"U+1E45", <<"U+1E44">>>>, <<"U+1E47", <<"U+1E46">>>>,
     <<"U+1E49", <<"U+1E48">>>>, <<"U+1E4B", <<"U+1E4A">>>>, <<"U+1E4D",
     <<"U+1E4C">>>>, <<"U+1E4F", <<"U+1E4E">>>>, <<"U+1E51", <<"U+1E50">>>>,
     <<"U+1E53", <<"U+1E52">>>>, <<"U+1E55", <<"U+1E54">>>>, <<"U+1E57",
     <<"U+1E56">>>>, <<"U+1E59", <<"U+1E58">>>>, <<"U+1E5B", <<"U+1E5A">>>>,
     <<"U+1E5D", <<"U+1E5C">>>>, <<"U+1E5F", <<"U+1E5E">>>>, <<"U+1E61",
     <<"U+1E60">>>>, <<"U+1E63", <<"U+1E62">>>>, <<"U+1E65", <<"U+1E64">>>>,
     <<"U+1E67", <<"U+1E66">>>>, <<"U+1E69", <<"U+1E68">>>>, <<"U+1E6B",
     <<"U+1E6A">>>>, <<"U+1E6D", <<"U+1E6C">>>>, <<"U+1E6F", <<"U+1E6E">>>>,
     <<"U+1E71", <<"U+1E70">>>>, <<"U+1E73", <<"U+1E72">>>>, <<"U+1E75",
     <<"U+1E74">>>>, <<"U+1E77", <<"U+1E76">>>>, <<"U+1E79", <<"U+1E78">>>>,
     <<"U+1E7B", <<"U+1E7A">>>>, <<"U+1E7D", <<"U+1E7C">>>>, <<"U+1E7F",
     <<"U+1E7E">>>>, <<"U+1E81", <<"U+1E80">>>>, <<"U+1E83", <<"U+1E82">>>>,
     <<"U+1E85", <<"U+1E84">>>>, <<"U+1E87", <<"U+1E86">>>>, <<"U+1E89",
     <<"U+1E88">>>>, <<"U+1E8B", <<"U+1E8A">>>>, <<"U+1E8D", <<"U+1E8C">>>>,
     <<"U+1E8F", <<"U+1E8E">>>>, <<"U+1E91", <<"U+1E90">>>>, <<"U+1E93",
     <<"U+1E92">>>>, <<"U+1E95", <<"U+1E94">>>>, <<"U+1E96", <<"H",
     "U+0331">>>>, <<"U+1E97", <<"T", "U+0308">>>>, <<"U+1E98", <<"W",
     "U+030A">>>>, <<"U+1E99", <<"Y", "U+030A">>>>, <<"U+1E9A", <<"A",
     "U+02BE">>>>, <<"U+1E9B", <<"U+1E60">>>>, <<"U+1EA1", <<"U+1EA0">>>>,
     <<"U+1EA3", <<"U+1EA2">>>>, <<"U+1EA5", <<"U+1EA4">>>>, <<"U+1EA7",
     <<"U+1EA6">>>>, <<"U+1EA9", <<"U+1EA8">>>>, <<"U+1EAB", <<"U+1EAA">>>>,
     <<"U+1EAD", <<"U+1EAC">>>>, <<"U+1EAF", <<"U+1EAE">>>>, <<"U+1EB1",
     <<"U+1EB0">>>>, <<"U+1EB3", <<"U+1EB2">>>>, <<"U+1EB5", <<"U+1EB4">>>>,
     <<"U+1EB7", <<"U+1EB6">>>>, <<"U+1EB9", <<"U+1EB8">>>>, <<"U+1EBB",
     <<"U+1EBA">>>>, <<"U+1EBD", <<"U+1EBC">>>>, <<"U+1EBF", <<"U+1EBE">>>>,
     <<"U+1EC1", <<"U+1EC0">>>>, <<"U+1EC3", <<"U+1EC2">>>>, <<"U+1EC5",
     <<"U+1EC4">>>>, <<"U+1EC7", <<"U+1EC6">>>>, <<"U+1EC9", <<"U+1EC8">>>>,
     <<"U+1ECB", <<"U+1ECA">>>>, <<"U+1ECD", <<"U+1ECC">>>>, <<"U+1ECF",
     <<"U+1ECE">>>>, <<"U+1ED1", <<"U+1ED0">>>>, <<"U+1ED3", <<"U+1ED2">>>>,
     <<"U+1ED5", <<"U+1ED4">>>>, <<"U+1ED7", <<"U+1ED6">>>>, <<"U+1ED9",
     <<"U+1ED8">>>>, <<"U+1EDB", <<"U+1EDA">>>>, <<"U+1EDD", <<"U+1EDC">>>>,
     <<"U+1EDF", <<"U+1EDE">>>>, <<"U+1EE1", <<"U+1EE0">>>>, <<"U+1EE3",
     <<"U+1EE2">>>>, <<"U+1EE5", <<"U+1EE4">>>>, <<"U+1EE7", <<"U+1EE6">>>>,
     <<"U+1EE9", <<"U+1EE8">>>>, <<"U+1EEB", <<"U+1EEA">>>>, <<"U+1EED",
     <<"U+1EEC">>>>, <<"U+1EEF", <<"U+1EEE">>>>, <<"U+1EF1", <<"U+1EF0">>>>,
     <<"U+1EF3", <<"U+1EF2">>>>, <<"U+1EF5", <<"U+1EF4">>>>, <<"U+1EF7",
     <<"U+1EF6">>>>, <<"U+1EF9", <<"U+1EF8">>>>, <<"U+1EFB", <<"U+1EFA">>>>,
     <<"U+1EFD", <<"U+1EFC">>>>, <<"U+1EFF", <<"U+1EFE">>>>, <<"U+1F00",
     <<"U+1F08">>>>, <<"U+1F01", <<"U+1F09">>>>, <<"U+1F02", <<"U+1F0A">>>>,
     <<"U+1F03", <<"U+1F0B">>>>, <<"U+1F04", <<"U+1F0C">>>>, <<"U+1F05",
     <<"U+1F0D">>>>, <<"U+1F06", <<"U+1F0E">>>>, <<"U+1F07", <<"U+1F0F">>>>,
     <<"U+1F10", <<"U+1F18">>>>, <<"U+1F11", <<"U+1F19">>>>, <<"U+1F12",
     <<"U+1F1A">>>>, <<"U+1F13", <<"U+1F1B">>>>, <<"U+1F14", <<"U+1F1C">>>>,
     <<"U+1F15", <<"U+1F1D">>>>, <<"U+1F20", <<"U+1F28">>>>, <<"U+1F21",
     <<"U+1F29">>>>, <<"U+1F22", <<"U+1F2A">>>>, <<"U+1F23", <<"U+1F2B">>>>,
     <<"U+1F24", <<"U+1F2C">>>>, <<"U+1F25", <<"U+1F2D">>>>, <<"U+1F26",
     <<"U+1F2E">>>>, <<"U+1F27", <<"U+1F2F">>>>, <<"U+1F30", <<"U+1F38">>>>,
     <<"U+1F31", <<"U+1F39">>>>, <<"U+1F32", <<"U+1F3A">>>>, <<"U+1F33",
     <<"U+1F3B">>>>, <<"U+1F34", <<"U+1F3C">>>>, <<"U+1F35", <<"U+1F3D">>>>,
     <<"U+1F36", <<"U+1F3E">>>>, <<"U+1F37", <<"U+1F3F">>>>, <<"U+1F40",
     <<"U+1F48">>>>, <<"U+1F41", <<"U+1F49">>>>, <<"U+1F42", <<"U+1F4A">>>>,
     <<"U+1F43", <<"U+1F4B">>>>, <<"U+1F44", <<"U+1F4C">>>>, <<"U+1F45",
     <<"U+1F4D">>>>, <<"U+1F50", <<"U+03A5", "U+0313">>>>, <<"U+1F51",
     <<"U+1F59">>>>, <<"U+1F52", <<"U+03A5", "U+0313", "U+0300">>>>,
     <<"U+1F53", <<"U+1F5B">>>>, <<"U+1F54", <<"U+03A5", "U+0313",
     "U+0301">>>>, <<"U+1F55", <<"U+1F5D">>>>, <<"U+1F56", <<"U+03A5",
     "U+0313", "U+0342">>>>, <<"U+1F57", <<"U+1F5F">>>>, <<"U+1F60",
     <<"U+1F68">>>>, <<"U+1F61", <<"U+1F69">>>>, <<"U+1F62", <<"U+1F6A">>>>,
     <<"U+1F63", <<"U+1F6B">>>>, <<"U+1F64", <<"U+1F6C">>>>, <<"U+1F65",
     <<"U+1F6D">>>>, <<"U+1F66", <<"U+1F6E">>>>, <<"U+1F67", <<"U+1F6F">>>>,
     <<"U+1F70", <<"U+1FBA">>>>, <<"U+1F71", <<"U+1FBB">>>>, <<"U+1F72",
     <<"U+1FC8">>>>, <<"U+1F73", <<"U+1FC9">>>>, <<"U+1F74", <<"U+1FCA">>>>,
     <<"U+1F75", <<"U+1FCB">>>>, <<"U+1F76", <<"U+1FDA">>>>, <<"U+1F77",
     <<"U+1FDB">>>>, <<"U+1F78", <<"U+1FF8">>>>, <<"U+1F79", <<"U+1FF9">>>>,
     <<"U+1F7A", <<"U+1FEA">>>>, <<"U+1F7B", <<"U+1FEB">>>>, <<"U+1F7C",
     <<"U+1FFA">>>>, <<"U+1F7D", <<"U+1FFB">>>>, <<"U+1F80", <<"U+1F08",
     "U+0399">>>>, <<"U+1F81", <<"U+1F09", "U+0399">>>>, <<"U+1F82",
     <<"U+1F0A", "U+0399">>>>, <<"U+1F83", <<"U+1F0B", "U+0399">>>>,
     <<"U+1F84", <<"U+1F0C", "U+0399">>>>, <<"U+1F85", <<"U+1F0D",
     "U+0399">>>>, <<"U+1F86", <<"U+1F0E", "U+0399">>>>, <<"U+1F87",
     <<"U+1F0F", "U+0399">>>>, <<"U+1F88", <<"U+1F08", "U+0399">>>>,
     <<"U+1F89", <<"U+1F09", "U+0399">>>>, <<"U+1F8A", <<"U+1F0A",
     "U+0399">>>>, <<"U+1F8B", <<"U+1F0B", "U+0399">>>>, <<"U+1F8C",
     <<"U+1F0C", "U+0399">>>>, <<"U+1F8D", <<"U+1F0D", "U+0399">>>>,
     <<"U+1F8E", <<"U+1F0E", "U+0399">>>>, <<"U+1F8F", <<"U+1F0F",
     "U+0399">>>>, <<"U+1F90", <<"U+1F28", "U+0399">>>>, <<"U+1F91",
     <<"U+1F29", "U+0399">>>>, <<"U+1F92", <<"U+1F2A", "U+0399">>>>,
     <<"U+1F93", <<"U+1F2B", "U+0399">>>>, <<"U+1F94", <<"U+1F2C",
     "U+0399">>>>, <<"U+1F95", <<"U+1F2D", "U+0399">>>>, <<"U+1F96",
     <<"U+1F2E", "U+0399">>>>, <<"U+1F97", <<"U+1F2F", "U+0399">>>>,
     <<"U+1F98", <<"U+1F28", "U+0399">>>>, <<"U+1F99", <<"U+1F29",
     "U+0399">>>>, <<"U+1F9A", <<"U+1F2A", "U+0399">>>>, <<"U+1F9B",
     <<"U+1F2B", "U+0399">>>>, <<"U+1F9C", <<"U+1F2C", "U+0399">>>>,
     <<"U+1F9D", <<"U+1F2D", "U+0399">>>>, <<"U+1F9E", <<"U+1F2E",
     "U+0399">>>>, <<"U+1F9F", <<"U+1F2F", "U+0399">>>>, <<"U+1FA0",
     <<"U+1F68", "U+0399">>>>, <<"U+1FA1", <<"U+1F69", "U+0399">>>>,
     <<"U+1FA2", <<"U+1F6A", "U+0399">>>>, <<"U+1FA3", <<"U+1F6B",
     "U+0399">>>>, <<"U+1FA4", <<"U+1F6C", "U+0399">>>>, <<"U+1FA5",
     <<"U+1F6D", "U+0399">>>>, <<"U+1FA6", <<"U+1F6E", "U+0399">>>>,
     <<"U+1FA7", <<"U+1F6F", "U+0399">>>>, <<"U+1FA8", <<"U+1F68",
     "U+0399">>>>, <<"U+1FA9", <<"U+1F69", "U+0399">>>>, <<"U+1FAA",
     <<"U+1F6A", "U+0399">>>>, <<"U+1FAB", <<"U+1F6B", "U+0399">>>>,
     <<"U+1FAC", <<"U+1F6C", "U+0399">>>>, <<"U+1FAD", <<"U+1F6D",
     "U+0399">>>>, <<"U+1FAE", <<"U+1F6E", "U+0399">>>>, <<"U+1FAF",
     <<"U+1F6F", "U+0399">>>>, <<"U+1FB0", <<"U+1FB8">>>>, <<"U+1FB1",
     <<"U+1FB9">>>>, <<"U+1FB2", <<"U+1FBA", "U+0399">>>>, <<"U+1FB3",
     <<"U+0391", "U+0399">>>>, <<"U+1FB4", <<"U+0386", "U+0399">>>>,
     <<"U+1FB6", <<"U+0391", "U+0342">>>>, <<"U+1FB7", <<"U+0391", "U+0342",
     "U+0399">>>>, <<"U+1FBC", <<"U+0391", "U+0399">>>>, <<"U+1FBE",
     <<"U+0399">>>>, <<"U+1FC2", <<"U+1FCA", "U+0399">>>>, <<"U+1FC3",
     <<"U+0397", "U+0399">>>>, <<"U+1FC4", <<"U+0389", "U+0399">>>>,
     <<"U+1FC6", <<"U+0397", "U+0342">>>>, <<"U+1FC7", <<"U+0397", "U+0342",
     "U+0399">>>>, <<"U+1FCC", <<"U+0397", "U+0399">>>>, <<"U+1FD0",
     <<"U+1FD8">>>>, <<"U+1FD1", <<"U+1FD9">>>>, <<"U+1FD2", <<"U+0399",
     "U+0308", "U+0300">>>>, <<"U+1FD3", <<"U+0399", "U+0308", "U+0301">>>>,
     <<"U+1FD6", <<"U+0399", "U+0342">>>>, <<"U+1FD7", <<"U+0399", "U+0308",
     "U+0342">>>>, <<"U+1FE0", <<"U+1FE8">>>>, <<"U+1FE1", <<"U+1FE9">>>>,
     <<"U+1FE2", <<"U+03A5", "U+0308", "U+0300">>>>, <<"U+1FE3", <<"U+03A5",
     "U+0308", "U+0301">>>>, <<"U+1FE4", <<"U+03A1", "U+0313">>>>, <<"U+1FE5",
     <<"U+1FEC">>>>, <<"U+1FE6", <<"U+03A5", "U+0342">>>>, <<"U+1FE7",
     <<"U+03A5", "U+0308", "U+0342">>>>, <<"U+1FF2", <<"U+1FFA", "U+0399">>>>,
     <<"U+1FF3", <<"U+03A9", "U+0399">>>>, <<"U+1FF4", <<"U+038F",
     "U+0399">>>>, <<"U+1FF6", <<"U+03A9", "U+0342">>>>, <<"U+1FF7",
     <<"U+03A9", "U+0342", "U+0399">>>>, <<"U+1FFC", <<"U+03A9", "U+0399">>>>,
     <<"U+214E", <<"U+2132">>>>, <<"U+2170", <<"U+2160">>>>, <<"U+2171",
     <<"U+2161">>>>, <<"U+2172", <<"U+2162">>>>, <<"U+2173", <<"U+2163">>>>,
     <<"U+2174", <<"U+2164">>>>, <<"U+2175", <<"U+2165">>>>, <<"U+2176",
     <<"U+2166">>>>, <<"U+2177", <<"U+2167">>>>, <<"U+2178", <<"U+2168">>>>,
     <<"U+2179", <<"U+2169">>>>, <<"U+217A", <<"U+216A">>>>, <<"U+217B",
     <<"U+216B">>>>, <<"U+217C", <<"U+216C">>>>, <<"U+217D", <<"U+216D">>>>,
     <<"U+217E", <<"U+216E">>>>, <<"U+217F", <<"U+216F">>>>, <<"U+2184",
     <<"U+2183">>>>, <<"U+24D0", <<"U+24B6">>>>, <<"U+24D1", <<"U+24B7">>>>,
     <<"U+24D2", <<"U+24B8">>>>, <<"U+24D3", <<"U+24B9">>>>, <<"U+24D4",
     <<"U+24BA">>>>, <<"U+24D5", <<"U+24BB">>>>, <<"U+24D6", <<"U+24BC">>>>,
     <<"U+24D7", <<"U+24BD">>>>, <<"U+24D8", <<"U+24BE">>>>, <<"U+24D9",
     <<"U+24BF">>>>, <<"U+24DA", <<"U+24C0">>>>, <<"U+24DB", <<"U+24C1">>>>,
     <<"U+24DC", <<"U+24C2">>>>, <<"U+24DD", <<"U+24C3">>>>, <<"U+24DE",
     <<"U+24C4">>>>, <<"U+24DF", <<"U+24C5">>>>, <<"U+24E0", <<"U+24C6">>>>,
     <<"U+24E1", <<"U+24C7">>>>, <<"U+24E2", <<"U+24C8">>>>, <<"U+24E3",
     <<"U+24C9">>>>, <<"U+24E4", <<"U+24CA">>>>, <<"U+24E5", <<"U+24CB">>>>,
     <<"U+24E6", <<"U+24CC">>>>, <<"U+24E7", <<"U+24CD">>>>, <<"U+24E8",
     <<"U+24CE">>>>, <<"U+24E9", <<"U+24CF">>>>, <<"U+2C30", <<"U+2C00">>>>,
     <<"U+2C31", <<"U+2C01">>>>, <<"U+2C32", <<"U+2C02">>>>, <<"U+2C33",
     <<"U+2C03">>>>, <<"U+2C34", <<"U+2C04">>>>, <<"U+2C35", <<"U+2C05">>>>,
     <<"U+2C36", <<"U+2C06">>>>, <<"U+2C37", <<"U+2C07">>>>, <<"U+2C38",
     <<"U+2C08">>>>, <<"U+2C39", <<"U+2C09">>>>, <<"U+2C3A", <<"U+2C0A">>>>,
     <<"U+2C3B", <<"U+2C0B">>>>, <<"U+2C3C", <<"U+2C0C">>>>, <<"U+2C3D",
     <<"U+2C0D">>>>, <<"U+2C3E", <<"U+2C0E">>>>, <<"U+2C3F", <<"U+2C0F">>>>,
     <<"U+2C40", <<"U+2C10">>>>, <<"U+2C41", <<"U+2C11">>>>, <<"U+2C42",
     <<"U+2C12">>>>, <<"U+2C43", <<"U+2C13">>>>, <<"U+2C44", <<"U+2C14">>>>,
     <<"U+2C45", <<"U+2C15">>>>, <<"U+2C46", <<"U+2C16">>>>, <<"U+2C47",
     <<"U+2C17">>>>, <<"U+2C48", <<"U+2C18">>>>, <<"U+2C49", <<"U+2C19">>>>,
     <<"U+2C4A", <<"U+2C1A">>>>, <<"U+2C4B", <<"U+2C1B">>>>, <<"U+2C4C",
     <<"U+2C1C">>>>, <<"U+2C4D", <<"U+2C1D">>>>, <<"U+2C4E", <<"U+2C1E">>>>,
     <<"U+2C4F", <<"U+2C1F">>>>, <<"U+2C50", <<"U+2C20">>>>, <<"U+2C51",
     <<"U+2C21">>>>, <<"U+2C52", <<"U+2C22">>>>, <<"U+2C53", <<"U+2C23">>>>,
     <<"U+2C54", <<"U+2C24">>>>, <<"U+2C55", <<"U+2C25">>>>, <<"U+2C56",
     <<"U+2C26">>>>, <<"U+2C57", <<"U+2C27">>>>, <<"U+2C58", <<"U+2C28">>>>,
     <<"U+2C59", <<"U+2C29">>>>, <<"U+2C5A", <<"U+2C2A">>>>, <<"U+2C5B",
     <<"U+2C2B">>>>, <<"U+2C5C", <<"U+2C2C">>>>, <<"U+2C5D", <<"U+2C2D">>>>,
     <<"U+2C5E", <<"U+2C2E">>>>, <<"U+2C5F", <<"U+2C2F">>>>, <<"U+2C61",
     <<"U+2C60">>>>, <<"U+2C65", <<"U+023A">>>>, <<"U+2C66", <<"U+023E">>>>,
     <<"U+2C68", <<"U+2C67">>>>, <<"U+2C6A", <<"U+2C69">>>>, <<"U+2C6C",
     <<"U+2C6B">>>>, <<"U+2C73", <<"U+2C72">>>>, <<"U+2C76", <<"U+2C75">>>>,
     <<"U+2C81", <<"U+2C80">>>>, <<"U+2C83", <<"U+2C82">>>>, <<"U+2C85",
     <<"U+2C84">>>>, <<"U+2C87", <<"U+2C86">>>>, <<"U+2C89", <<"U+2C88">>>>,
     <<"U+2C8B", <<"U+2C8A">>>>, <<"U+2C8D", <<"U+2C8C">>>>, <<"U+2C8F",
     <<"U+2C8E">>>>, <<"U+2C91", <<"U+2C90">>>>, <<"U+2C93", <<"U+2C92">>>>,
     <<"U+2C95", <<"U+2C94">>>>, <<"U+2C97", <<"U+2C96">>>>, <<"U+2C99",
     <<"U+2C98">>>>, <<"U+2C9B", <<"U+2C9A">>>>, <<"U+2C9D", <<"U+2C9C">>>>,
     <<"U+2C9F", <<"U+2C9E">>>>, <<"U+2CA1", <<"U+2CA0">>>>, <<"U+2CA3",
     <<"U+2CA2">>>>, <<"U+2CA5", <<"U+2CA4">>>>, <<"U+2CA7", <<"U+2CA6">>>>,
     <<"U+2CA9", <<"U+2CA8">>>>, <<"U+2CAB", <<"U+2CAA">>>>, <<"U+2CAD",
     <<"U+2CAC">>>>, <<"U+2CAF", <<"U+2CAE">>>>, <<"U+2CB1", <<"U+2CB0">>>>,
     <<"U+2CB3", <<"U+2CB2">>>>, <<"U+2CB5", <<"U+2CB4">>>>, <<"U+2CB7",
     <<"U+2CB6">>>>, <<"U+2CB9", <<"U+2CB8">>>>, <<"U+2CBB", <<"U+2CBA">>>>,
     <<"U+2CBD", <<"U+2CBC">>>>, <<"U+2CBF", <<"U+2CBE">>>>, <<"U+2CC1",
     <<"U+2CC0">>>>, <<"U+2CC3", <<"U+2CC2">>>>, <<"U+2CC5", <<"U+2CC4">>>>,
     <<"U+2CC7", <<"U+2CC6">>>>, <<"U+2CC9", <<"U+2CC8">>>>, <<"U+2CCB",
     <<"U+2CCA">>>>, <<"U+2CCD", <<"U+2CCC">>>>, <<"U+2CCF", <<"U+2CCE">>>>,
     <<"U+2CD1", <<"U+2CD0">>>>, <<"U+2CD3", <<"U+2CD2">>>>, <<"U+2CD5",
     <<"U+2CD4">>>>, <<"U+2CD7", <<"U+2CD6">>>>, <<"U+2CD9", <<"U+2CD8">>>>,
     <<"U+2CDB", <<"U+2CDA">>>>, <<"U+2CDD", <<"U+2CDC">>>>, <<"U+2CDF",
     <<"U+2CDE">>>>, <<"U+2CE1", <<"U+2CE0">>>>, <<"U+2CE3", <<"U+2CE2">>>>,
     <<"U+2CEC", <<"U+2CEB">>>>, <<"U+2CEE", <<"U+2CED">>>>, <<"U+2CF3",
     <<"U+2CF2">>>>, <<"U+2D00", <<"U+10A0">>>>, <<"U+2D01", <<"U+10A1">>>>,
     <<"U+2D02", <<"U+10A2">>>>, <<"U+2D03", <<"U+10A3">>>>, <<"U+2D04",
     <<"U+10A4">>>>, <<"U+2D05", <<"U+10A5">>>>, <<"U+2D06", <<"U+10A6">>>>,
     <<"U+2D07", <<"U+10A7">>>>, <<"U+2D08", <<"U+10A8">>>>, <<"U+2D09",
     <<"U+10A9">>>>, <<"U+2D0A", <<"U+10AA">>>>, <<"U+2D0B", <<"U+10AB">>>>,
     <<"U+2D0C", <<"U+10AC">>>>, <<"U+2D0D", <<"U+10AD">>>>, <<"U+2D0E",
     <<"U+10AE">>>>, <<"U+2D0F", <<"U+10AF">>>>, <<"U+2D10", <<"U+10B0">>>>,
     <<"U+2D11", <<"U+10B1">>>>, <<"U+2D12", <<"U+10B2">>>>, <<"U+2D13",
     <<"U+10B3">>>>, <<"U+2D14", <<"U+10B4">>>>, <<"U+2D15", <<"U+10B5">>>>,
     <<"U+2D16", <<"U+10B6">>>>, <<"U+2D17", <<"U+10B7">>>>, <<"U+2D18",
     <<"U+10B8">>>>, <<"U+2D19", <<"U+10B9">>>>, <<"U+2D1A", <<"U+10BA">>>>,
     <<"U+2D1B", <<"U+10BB">>>>, <<"U+2D1C", <<"U+10BC">>>>, <<"U+2D1D",
     <<"U+10BD">>>>, <<"U+2D1E", <<"U+10BE">>>>, <<"U+2D1F", <<"U+10BF">>>>,
     <<"U+2D20", <<"U+10C0">>>>, <<"U+2D21", <<"U+10C1">>>>, <<"U+2D22",
     <<"U+10C2">>>>, <<"U+2D23", <<"U+10C3">>>>, <<"U+2D24", <<"U+10C4">>>>,
     <<"U+2D25", <<"U+10C5">>>>, <<"U+2D27", <<"U+10C7">>>>, <<"U+2D2D",
     <<"U+10CD">>>>, <<"U+A641", <<"U+A640">>>>, <<"U+A643", <<"U+A642">>>>,
     <<"U+A645", <<"U+A644">>>>, <<"U+A647", <<"U+A646">>>>, <<"U+A649",
     <<"U+A648">>>>, <<"U+A64B", <<"U+A64A">>>>, <<"U+A64D", <<"U+A64C">>>>,
     <<"U+A64F", <<"U+A64E">>>>, <<"U+A651", <<"U+A650">>>>, <<"U+A653",
     <<"U+A652">>>>, <<"U+A655", <<"U+A654">>>>, <<"U+A657", <<"U+A656">>>>,
     <<"U+A659", <<"U+A658">>>>, <<"U+A65B", <<"U+A65A">>>>, <<"U+A65D",
     <<"U+A65C">>>>, <<"U+A65F", <<"U+A65E">>>>, <<"U+A661", <<"U+A660">>>>,
     <<"U+A663", <<"U+A662">>>>, <<"U+A665", <<"U+A664">>>>, <<"U+A667",
     <<"U+A666">>>>, <<"U+A669", <<"U+A668">>>>, <<"U+A66B", <<"U+A66A">>>>,
     <<"U+A66D", <<"U+A66C">>>>, <<"U+A681", <<"U+A680">>>>, <<"U+A683",
     <<"U+A682">>>>, <<"U+A685", <<"U+A684">>>>, <<"U+A687", <<"U+A686">>>>,
     <<"U+A689", <<"U+A688">>>>, <<"U+A68B", <<"U+A68A">>>>, <<"U+A68D",
     <<"U+A68C">>>>, <<"U+A68F", <<"U+A68E">>>>, <<"U+A691", <<"U+A690">>>>,
     <<"U+A693", <<"U+A692">>>>, <<"U+A695", <<"U+A694">>>>, <<"U+A697",
     <<"U+A696">>>>, <<"U+A699", <<"U+A698">>>>, <<"U+A69B", <<"U+A69A">>>>,
     <<"U+A723", <<"U+A722">>>>, <<"U+A725", <<"U+A724">>>>, <<"U+A727",
     <<"U+A726">>>>, <<"U+A729", <<"U+A728">>>>, <<"U+A72B", <<"U+A72A">>>>,
     <<"U+A72D", <<"U+A72C">>>>, <<"U+A72F", <<"U+A72E">>>>, <<"U+A733",
     <<"U+A732">>>>, <<"U+A735", <<"U+A734">>>>, <<"U+A737", <<"U+A736">>>>,
     <<"U+A739", <<"U+A738">>>>, <<"U+A73B", <<"U+A73A">>>>, <<"U+A73D",
     <<"U+A73C">>>>, <<"U+A73F", <<"U+A73E">>>>, <<"U+A741", <<"U+A740">>>>,
     <<"U+A743", <<"U+A742">>>>, <<"U+A745", <<"U+A744">>>>, <<"U+A747",
     <<"U+A746">>>>, <<"U+A749", <<"U+A748">>>>, <<"U+A74B", <<"U+A74A">>>>,
     <<"U+A74D", <<"U+A74C">>>>, <<"U+A74F", <<"U+A74E">>>>, <<"U+A751",
     <<"U+A750">>>>, <<"U+A753", <<"U+A752">>>>, <<"U+A755", <<"U+A754">>>>,
     <<"U+A757", <<"U+A756">>>>, <<"U+A759", <<"U+A758">>>>, <<"U+A75B",
     <<"U+A75A">>>>, <<"U+A75D", <<"U+A75C">>>>, <<"U+A75F", <<"U+A75E">>>>,
     <<"U+A761", <<"U+A760">>>>, <<"U+A763", <<"U+A762">>>>, <<"U+A765",
     <<"U+A764">>>>, <<"U+A767", <<"U+A766">>>>, <<"U+A769", <<"U+A768">>>>,
     <<"U+A76B", <<"U+A76A">>>>, <<"U+A76D", <<"U+A76C">>>>, <<"U+A76F",
     <<"U+A76E">>>>, <<"U+A77A", <<"U+A779">>>>, <<"U+A77C", <<"U+A77B">>>>,
     <<"U+A77F", <<"U+A77E">>>>, <<"U+A781", <<"U+A780">>>>, <<"U+A783",
     <<"U+A782">>>>, <<"U+A785", <<"U+A784">>>>, <<"U+A787", <<"U+A786">>>>,
     <<"U+A78C", <<"U+A78B">>>>, <<"U+A791", <<"U+A790">>>>, <<"U+A793",
     <<"U+A792">>>>, <<"U+A794", <<"U+A7C4">>>>, <<"U+A797", <<"U+A796">>>>,
     <<"U+A799", <<"U+A798">>>>, <<"U+A79B", <<"U+A79A">>>>, <<"U+A79D",
     <<"U+A79C">>>>, <<"U+A79F", <<"U+A79E">>>>, <<"U+A7A1", <<"U+A7A0">>>>,
     <<"U+A7A3", <<"U+A7A2">>>>, <<"U+A7A5", <<"U+A7A4">>>>, <<"U+A7A7",
     <<"U+A7A6">>>>, <<"U+A7A9", <<"U+A7A8">>>>, <<"U+A7B5", <<"U+A7B4">>>>,
     <<"U+A7B7", <<"U+A7B6">>>>, <<"U+A7B9", <<"U+A7B8">>>>, <<"U+A7BB",
     <<"U+A7BA">>>>, <<"U+A7BD", <<"U+A7BC">>>>, <<"U+A7BF", <<"U+A7BE">>>>,
     <<"U+A7C1", <<"U+A7C0">>>>, <<"U+A7C3", <<"U+A7C2">>>>, <<"U+A7C8",
     <<"U+A7C7">>>>, <<"U+A7CA", <<"U+A7C9">>>>, <<"U+A7D1", <<"U+A7D0">>>>,
     <<"U+A7D7", <<"U+A7D6">>>>, <<"U+A7D9", <<"U+A7D8">>>>, <<"U+A7F6",
     <<"U+A7F5">>>>, <<"U+AB53", <<"U+A7B3">>>>, <<"U+AB70", <<"U+13A0">>>>,
     <<"U+AB71", <<"U+13A1">>>>, <<"U+AB72", <<"U+13A2">>>>, <<"U+AB73",
     <<"U+13A3">>>>, <<"U+AB74", <<"U+13A4">>>>, <<"U+AB75", <<"U+13A5">>>>,
     <<"U+AB76", <<"U+13A6">>>>, <<"U+AB77", <<"U+13A7">>>>, <<"U+AB78",
     <<"U+13A8">>>>, <<"U+AB79", <<"U+13A9">>>>, <<"U+AB7A", <<"U+13AA">>>>,
     <<"U+AB7B", <<"U+13AB">>>>, <<"U+AB7C", <<"U+13AC">>>>, <<"U+AB7D",
     <<"U+13AD">>>>, <<"U+AB7E", <<"U+13AE">>>>, <<"U+AB7F", <<"U+13AF">>>>,
     <<"U+AB80", <<"U+13B0">>>>, <<"U+AB81", <<"U+13B1">>>>, <<"U+AB82",
     <<"U+13B2">>>>, <<"U+AB83", <<"U+13B3">>>>, <<"U+AB84", <<"U+13B4">>>>,
     <<"U+AB85", <<"U+13B5">>>>, <<"U+AB86", <<"U+13B6">>>>, <<"U+AB87",
     <<"U+13B7">>>>, <<"U+AB88", <<"U+13B8">>>>, <<"U+AB89", <<"U+13B9">>>>,
     <<"U+AB8A", <<"U+13BA">>>>, <<"U+AB8B", <<"U+13BB">>>>, <<"U+AB8C",
     <<"U+13BC">>>>, <<"U+AB8D", <<"U+13BD">>>>, <<"U+AB8E", <<"U+13BE">>>>,
     <<"U+AB8F", <<"U+13BF">>>>, <<"U+AB90", <<"U+13C0">>>>, <<"U+AB91",
     <<"U+13C1">>>>, <<"U+AB92", <<"U+13C2">>>>, <<"U+AB93", <<"U+13C3">>>>,
     <<"U+AB94", <<"U+13C4">>>>, <<"U+AB95", <<"U+13C5">>>>, <<"U+AB96",
     <<"U+13C6">>>>, <<"U+AB97", <<"U+13C7">>>>, <<"U+AB98", <<"U+13C8">>>>,
     <<"U+AB99", <<"U+13C9">>>>, <<"U+AB9A", <<"U+13CA">>>>, <<"U+AB9B",
     <<"U+13CB">>>>, <<"U+AB9C", <<"U+13CC">>>>, <<"U+AB9D", <<"U+13CD">>>>,
     <<"U+AB9E", <<"U+13CE">>>>, <<"U+AB9F", <<"U+13CF">>>>, <<"U+ABA0",
     <<"U+13D0">>>>, <<"U+ABA1", <<"U+13D1">>>>, <<"U+ABA2", <<"U+13D2">>>>,
     <<"U+ABA3", <<"U+13D3">>>>, <<"U+ABA4", <<"U+13D4">>>>, <<"U+ABA5",
     <<"U+13D5">>>>, <<"U+ABA6", <<"U+13D6">>>>, <<"U+ABA7", <<"U+13D7">>>>,
     <<"U+ABA8", <<"U+13D8">>>>, <<"U+ABA9", <<"U+13D9">>>>, <<"U+ABAA",
     <<"U+13DA">>>>, <<"U+ABAB", <<"U+13DB">>>>, <<"U+ABAC", <<"U+13DC">>>>,
     <<"U+ABAD", <<"U+13DD">>>>, <<"U+ABAE", <<"U+13DE">>>>, <<"U+ABAF",
     <<"U+13DF">>>>, <<"U+ABB0", <<"U+13E0">>>>, <<"U+ABB1", <<"U+13E1">>>>,
     <<"U+ABB2", <<"U+13E2">>>>, <<"U+ABB3", <<"U+13E3">>>>, <<"U+ABB4",
     <<"U+13E4">>>>, <<"U+ABB5", <<"U+13E5">>>>, <<"U+ABB6", <<"U+13E6">>>>,
     <<"U+ABB7", <<"U+13E7">>>>, <<"U+ABB8", <<"U+13E8">>>>, <<"U+ABB9",
     <<"U+13E9">>>>, <<"U+ABBA", <<"U+13EA">>>>, <<"U+ABBB", <<"U+13EB">>>>,
     <<"U+ABBC", <<"U+13EC">>>>, <<"U+ABBD", <<"U+13ED">>>>, <<"U+ABBE",
     <<"U+13EE">>>>, <<"U+ABBF", <<"U+13EF">>>>, <<"U+FB00", <<"F", "F">>>>,
     <<"U+FB01", <<"F", "I">>>>, <<"U+FB02", <<"F", "L">>>>, <<"U+FB03",
     <<"F", "F", "I">>>>, <<"U+FB04", <<"F", "F", "L">>>>, <<"U+FB05", <<"S",
     "T">>>>, <<"U+FB06", <<"S", "T">>>>, <<"U+FB13", <<"U+0544",
     "U+0546">>>>, <<"U+FB14", <<"U+0544", "U+0535">>>>, <<"U+FB15",
     <<"U+0544", "U+053B">>>>, <<"U+FB16", <<"U+054E", "U+0546">>>>,
     <<"U+FB17", <<"U+0544", "U+053D">>>>, <<"U+FF41", <<"U+FF21">>>>,
     <<"U+FF42", <<"U+FF22">>>>, <<"U+FF43", <<"U+FF23">>>>, <<"U+FF44",
     <<"U+FF24">>>>, <<"U+FF45", <<"U+FF25">>>>, <<"U+FF46", <<"U+FF26">>>>,
     <<"U+FF47", <<"U+FF27">>>>, <<"U+FF48", <<"U+FF28">>>>, <<"U+FF49",
     <<"U+FF29">>>>, <<"U+FF4A", <<"U+FF2A">>>>, <<"U+FF4B", <<"U+FF2B">>>>,
     <<"U+FF4C", <<"U+FF2C">>>>, <<"U+FF4D", <<"U+FF2D">>>>, <<"U+FF4E",
     <<"U+FF2E">>>>, <<"U+FF4F", <<"U+FF2F">>>>, <<"U+FF50", <<"U+FF30">>>>,
     <<"U+FF51", <<"U+FF31">>>>, <<"U+FF52", <<"U+FF32">>>>, <<"U+FF53",
     <<"U+FF33">>>>, <<"U+FF54", <<"U+FF34">>>>, <<"U+FF55", <<"U+FF35">>>>,
     <<"U+FF56", <<"U+FF36">>>>, <<"U+FF57", <<"U+FF37">>>>, <<"U+FF58",
     <<"U+FF38">>>>, <<"U+FF59", <<"U+FF39">>>>, <<"U+FF5A", <<"U+FF3A">>>>,
     <<"U+10428", <<"U+10400">>>>, <<"U+10429", <<"U+10401">>>>, <<"U+1042A",
     <<"U+10402">>>>, <<"U+1042B", <<"U+10403">>>>, <<"U+1042C",
     <<"U+10404">>>>, <<"U+1042D", <<"U+10405">>>>, <<"U+1042E",
     <<"U+10406">>>>, <<"U+1042F", <<"U+10407">>>>, <<"U+10430",
     <<"U+10408">>>>, <<"U+10431", <<"U+10409">>>>, <<"U+10432",
     <<"U+1040A">>>>, <<"U+10433", <<"U+1040B">>>>, <<"U+10434",
     <<"U+1040C">>>>, <<"U+10435", <<"U+1040D">>>>, <<"U+10436",
     <<"U+1040E">>>>, <<"U+10437", <<"U+1040F">>>>, <<"U+10438",
     <<"U+10410">>>>, <<"U+10439", <<"U+10411">>>>, <<"U+1043A",
     <<"U+10412">>>>, <<"U+1043B", <<"U+10413">>>>, <<"U+1043C",
     <<"U+10414">>>>, <<"U+1043D", <<"U+10415">>>>, <<"U+1043E",
     <<"U+10416">>>>, <<"U+1043F", <<"U+10417">>>>, <<"U+10440",
     <<"U+10418">>>>, <<"U+10441", <<"U+10419">>>>, <<"U+10442",
     <<"U+1041A">>>>, <<"U+10443", <<"U+1041B">>>>, <<"U+10444",
     <<"U+1041C">>>>, <<"U+10445", <<"U+1041D">>>>, <<"U+10446",
     <<"U+1041E">>>>, <<"U+10447", <<"U+1041F">>>>, <<"U+10448",
     <<"U+10420">>>>, <<"U+10449", <<"U+10421">>>>, <<"U+1044A",
     <<"U+10422">>>>, <<"U+1044B", <<"U+10423">>>>, <<"U+1044C",
     <<"U+10424">>>>, <<"U+1044D", <<"U+10425">>>>, <<"U+1044E",
     <<"U+10426">>>>, <<"U+1044F", <<"U+10427">>>>, <<"U+104D8",
     <<"U+104B0">>>>, <<"U+104D9", <<"U+104B1">>>>, <<"U+104DA",
     <<"U+104B2">>>>, <<"U+104DB", <<"U+104B3">>>>, <<"U+104DC",
     <<"U+104B4">>>>, <<"U+104DD", <<"U+104B5">>>>, <<"U+104DE",
     <<"U+104B6">>>>, <<"U+104DF", <<"U+104B7">>>>, <<"U+104E0",
     <<"U+104B8">>>>, <<"U+104E1", <<"U+104B9">>>>, <<"U+104E2",
     <<"U+104BA">>>>, <<"U+104E3", <<"U+104BB">>>>, <<"U+104E4",
     <<"U+104BC">>>>, <<"U+104E5", <<"U+104BD">>>>, <<"U+104E6",
     <<"U+104BE">>>>, <<"U+104E7", <<"U+104BF">>>>, <<"U+104E8",
     <<"U+104C0">>>>, <<"U+104E9", <<"U+104C1">>>>, <<"U+104EA",
     <<"U+104C2">>>>, <<"U+104EB", <<"U+104C3">>>>, <<"U+104EC",
     <<"U+104C4">>>>, <<"U+104ED", <<"U+104C5">>>>, <<"U+104EE",
     <<"U+104C6">>>>, <<"U+104EF", <<"U+104C7">>>>, <<"U+104F0",
     <<"U+104C8">>>>, <<"U+104F1", <<"U+104C9">>>>, <<"U+104F2",
     <<"U+104CA">>>>, <<"U+104F3", <<"U+104CB">>>>, <<"U+104F4",
     <<"U+104CC">>>>, <<"U+104F5", <<"U+104CD">>>>, <<"U+104F6",
     <<"U+104CE">>>>, <<"U+104F7", <<"U+104CF">>>>, <<"U+104F8",
     <<"U+104D0">>>>, <<"U+104F9", <<"U+104D1">>>>, <<"U+104FA",
     <<"U+104D2">>>>, <<"U+104FB", <<"U+104D3">>>>, <<"U+10597",
     <<"U+10570">>>>, <<"U+10598", <<"U+10571">>>>, <<"U+10599",
     <<"U+10572">>>>, <<"U+1059A", <<"U+10573">>>>, <<"U+1059B",
     <<"U+10574">>>>, <<"U+1059C", <<"U+10575">>>>, <<"U+1059D",
     <<"U+10576">>>>, <<"U+1059E", <<"U+10577">>>>, <<"U+1059F",
     <<"U+10578">>>>, <<"U+105A0", <<"U+10579">>>>, <<"U+105A1",
     <<"U+1057A">>>>, <<"U+105A3", <<"U+1057C">>>>, <<"U+105A4",
     <<"U+1057D">>>>, <<"U+105A5", <<"U+1057E">>>>, <<"U+105A6",
     <<"U+1057F">>>>, <<"U+105A7", <<"U+10580">>>>, <<"U+105A8",
     <<"U+10581">>>>, <<"U+105A9", <<"U+10582">>>>, <<"U+105AA",
     <<"U+10583">>>>, <<"U+105AB", <<"U+10584">>>>, <<"U+105AC",
     <<"U+10585">>>>, <<"U+105AD", <<"U+10586">>>>, <<"U+105AE",
     <<"U+10587">>>>, <<"U+105AF", <<"U+10588">>>>, <<"U+105B0",
     <<"U+10589">>>>, <<"U+105B1", <<"U+1058A">>>>, <<"U+105B3",
     <<"U+1058C">>>>, <<"U+105B4", <<"U+1058D">>>>, <<"U+105B5",
     <<"U+1058E">>>>, <<"U+105B6", <<"U+1058F">>>>, <<"U+105B7",
     <<"U+10590">>>>, <<"U+105B8", <<"U+10591">>>>, <<"U+105B9",
     <<"U+10592">>>>, <<"U+105BB", <<"U+10594">>>>, <<"U+105BC",
     <<"U+10595">>>>, <<"U+10CC0", <<"U+10C80">>>>, <<"U+10CC1",
     <<"U+10C81">>>>, <<"U+10CC2", <<"U+10C82">>>>, <<"U+10CC3",
     <<"U+10C83">>>>, <<"U+10CC4", <<"U+10C84">>>>, <<"U+10CC5",
     <<"U+10C85">>>>, <<"U+10CC6", <<"U+10C86">>>>, <<"U+10CC7",
     <<"U+10C87">>>>, <<"U+10CC8", <<"U+10C88">>>>, <<"U+10CC9",
     <<"U+10C89">>>>, <<"U+10CCA", <<"U+10C8A">>>>, <<"U+10CCB",
     <<"U+10C8B">>>>, <<"U+10CCC", <<"U+10C8C">>>>, <<"U+10CCD",
     <<"U+10C8D">>>>, <<"U+10CCE", <<"U+10C8E">>>>, <<"U+10CCF",
     <<"U+10C8F">>>>, <<"U+10CD0", <<"U+10C90">>>>, <<"U+10CD1",
     <<"U+10C91">>>>, <<"U+10CD2", <<"U+10C92">>>>, <<"U+10CD3",
     <<"U+10C93">>>>, <<"U+10CD4", <<"U+10C94">>>>, <<"U+10CD5",
     <<"U+10C95">>>>, <<"U+10CD6", <<"U+10C96">>>>, <<"U+10CD7",
     <<"U+10C97">>>>, <<"U+10CD8", <<"U+10C98">>>>, <<"U+10CD9",
     <<"U+10C99">>>>, <<"U+10CDA", <<"U+10C9A">>>>, <<"U+10CDB",
     <<"U+10C9B">>>>, <<"U+10CDC", <<"U+10C9C">>>>, <<"U+10CDD",
     <<"U+10C9D">>>>, <<"U+10CDE", <<"U+10C9E">>>>, <<"U+10CDF",
     <<"U+10C9F">>>>, <<"U+10CE0", <<"U+10CA0">>>>, <<"U+10CE1",
     <<"U+10CA1">>>>, <<"U+10CE2", <<"U+10CA2">>>>, <<"U+10CE3",
     <<"U+10CA3">>>>, <<"U+10CE4", <<"U+10CA4">>>>, <<"U+10CE5",
     <<"U+10CA5">>>>, <<"U+10CE6", <<"U+10CA6">>>>, <<"U+10CE7",
     <<"U+10CA7">>>>, <<"U+10CE8", <<"U+10CA8">>>>, <<"U+10CE9",
     <<"U+10CA9">>>>, <<"U+10CEA", <<"U+10CAA">>>>, <<"U+10CEB",
     <<"U+10CAB">>>>, <<"U+10CEC", <<"U+10CAC">>>>, <<"U+10CED",
     <<"U+10CAD">>>>, <<"U+10CEE", <<"U+10CAE">>>>, <<"U+10CEF",
     <<"U+10CAF">>>>, <<"U+10CF0", <<"U+10CB0">>>>, <<"U+10CF1",
     <<"U+10CB1">>>>, <<"U+10CF2", <<"U+10CB2">>>>, <<"U+118C0",
     <<"U+118A0">>>>, <<"U+118C1", <<"U+118A1">>>>, <<"U+118C2",
     <<"U+118A2">>>>, <<"U+118C3", <<"U+118A3">>>>, <<"U+118C4",
     <<"U+118A4">>>>, <<"U+118C5", <<"U+118A5">>>>, <<"U+118C6",
     <<"U+118A6">>>>, <<"U+118C7", <<"U+118A7">>>>, <<"U+118C8",
     <<"U+118A8">>>>, <<"U+118C9", <<"U+118A9">>>>, <<"U+118CA",
     <<"U+118AA">>>>, <<"U+118CB", <<"U+118AB">>>>, <<"U+118CC",
     <<"U+118AC">>>>, <<"U+118CD", <<"U+118AD">>>>, <<"U+118CE",
     <<"U+118AE">>>>, <<"U+118CF", <<"U+118AF">>>>, <<"U+118D0",
     <<"U+118B0">>>>, <<"U+118D1", <<"U+118B1">>>>, <<"U+118D2",
     <<"U+118B2">>>>, <<"U+118D3", <<"U+118B3">>>>, <<"U+118D4",
     <<"U+118B4">>>>, <<"U+118D5", <<"U+118B5">>>>, <<"U+118D6",
     <<"U+118B6">>>>, <<"U+118D7", <<"U+118B7">>>>, <<"U+118D8",
     <<"U+118B8">>>>, <<"U+118D9", <<"U+118B9">>>>, <<"U+118DA",
     <<"U+118BA">>>>, <<"U+118DB", <<"U+118BB">>>>, <<"U+118DC",
     <<"U+118BC">>>>, <<"U+118DD", <<"U+118BD">>>>, <<"U+118DE",
     <<"U+118BE">>>>, <<"U+118DF", <<"U+118BF">>>>, <<"U+16E60",
     <<"U+16E40">>>>, <<"U+16E61", <<"U+16E41">>>>, <<"U+16E62",
     <<"U+16E42">>>>, <<"U+16E63", <<"U+16E43">>>>, <<"U+16E64",
     <<"U+16E44">>>>, <<"U+16E65", <<"U+16E45">>>>, <<"U+16E66",
     <<"U+16E46">>>>, <<"U+16E67", <<"U+16E47">>>>, <<"U+16E68",
     <<"U+16E48">>>>, <<"U+16E69", <<"U+16E49">>>>, <<"U+16E6A",
     <<"U+16E4A">>>>, <<"U+16E6B", <<"U+16E4B">>>>, <<"U+16E6C",
     <<"U+16E4C">>>>, <<"U+16E6D", <<"U+16E4D">>>>, <<"U+16E6E",
     <<"U+16E4E">>>>, <<"U+16E6F", <<"U+16E4F">>>>, <<"U+16E70",
     <<"U+16E50">>>>, <<"U+16E71", <<"U+16E51">>>>, <<"U+16E72",
     <<"U+16E52">>>>, <<"U+16E73", <<"U+16E53">>>>, <<"U+16E74",
     <<"U+16E54">>>>, <<"U+16E75", <<"U+16E55">>>>, <<"U+16E76",
     <<"U+16E56">>>>, <<"U+16E77", <<"U+16E57">>>>, <<"U+16E78",
     <<"U+16E58">>>>, <<"U+16E79", <<"U+16E59">>>>, <<"U+16E7A",
     <<"U+16E5A">>>>, <<"U+16E7B", <<"U+16E5B">>>>, <<"U+16E7C",
     <<"U+16E5C">>>>, <<"U+16E7D", <<"U+16E5D">>>>, <<"U+16E7E",
     <<"U+16E5E">>>>, <<"U+16E7F", <<"U+16E5F">>>>, <<"U+1E922",
     <<"U+1E900">>>>, <<"U+1E923", <<"U+1E901">>>>, <<"U+1E924",
     <<"U+1E902">>>>, <<"U+1E925", <<"U+1E903">>>>, <<"U+1E926",
     <<"U+1E904">>>>, <<"U+1E927", <<"U+1E905">>>>, <<"U+1E928",
     <<"U+1E906">>>>, <<"U+1E929", <<"U+1E907">>>>, <<"U+1E92A",
     <<"U+1E908">>>>, <<"U+1E92B", <<"U+1E909">>>>, <<"U+1E92C",
     <<"U+1E90A">>>>, <<"U+1E92D", <<"U+1E90B">>>>, <<"U+1E92E",
     <<"U+1E90C">>>>, <<"U+1E92F", <<"U+1E90D">>>>, <<"U+1E930",
     <<"U+1E90E">>>>, <<"U+1E931", <<"U+1E90F">>>>, <<"U+1E932",
     <<"U+1E910">>>>, <<"U+1E933", <<"U+1E911">>>>, <<"U+1E934",
     <<"U+1E912">>>>, <<"U+1E935", <<"U+1E913">>>>, <<"U+1E936",
     <<"U+1E914">>>>, <<"U+1E937", <<"U+1E915">>>>, <<"U+1E938",
     <<"U+1E916">>>>, <<"U+1E939", <<"U+1E917">>>>, <<"U+1E93A",
     <<"U+1E918">>>>, <<"U+1E93B", <<"U+1E919">>>>, <<"U+1E93C",
     <<"U+1E91A">>>>, <<"U+1E93D", <<"U+1E91B">>>>, <<"U+1E93E",
     <<"U+1E91C">>>>, <<"U+1E93F", <<"U+1E91D">>>>, <<"U+1E940",
     <<"U+1E91E">>>>, <<"U+1E941", <<"U+1E91F">>>>, <<"U+1E942",
     <<"U+1E920">>>>, <<"U+1E943", <<"U+1E921">>>>}

Range(s) == {s[i] : i \in DOMAIN s}

\* The characters str.isspace() is true of, which are those str.strip()
\* drops and \s matches.
WhiteSpace ==
    {" ", "\t", NL, CR, "\f",
     "U+000B", "U+001C", "U+001D", "U+001E", "U+001F", "U+0085", "U+00A0",
     "U+1680", "U+2000", "U+2001", "U+2002", "U+2003", "U+2004", "U+2005",
     "U+2006", "U+2007", "U+2008", "U+2009", "U+200A", "U+2028", "U+2029",
     "U+202F", "U+205F", "U+3000"}

IsSpace(c) == c \in WhiteSpace

\* The characters str.isdigit() is true of and int() reads: the decimal
\* digits of every script, the digits of value v at index v + 1.
DecimalDigitsOf == <<
    {"0", "U+0660", "U+06F0", "U+07C0", "U+0966", "U+09E6", "U+0A66",
     "U+0AE6", "U+0B66", "U+0BE6", "U+0C66", "U+0CE6", "U+0D66", "U+0DE6",
     "U+0E50", "U+0ED0", "U+0F20", "U+1040", "U+1090", "U+17E0", "U+1810",
     "U+1946", "U+19D0", "U+1A80", "U+1A90", "U+1B50", "U+1BB0", "U+1C40",
     "U+1C50", "U+A620", "U+A8D0", "U+A900", "U+A9D0", "U+A9F0", "U+AA50",
     "U+ABF0", "U+FF10", "U+104A0", "U+10D30", "U+11066", "U+110F0",
     "U+11136", "U+111D0", "U+112F0", "U+11450", "U+114D0", "U+11650",
     "U+116C0", "U+11730", "U+118E0", "U+11950", "U+11C50", "U+11D50",
     "U+11DA0", "U+16A60", "U+16AC0", "U+16B50", "U+1D7CE", "U+1D7D8",
     "U+1D7E2", "U+1D7EC", "U+1D7F6", "U+1E140", "U+1E2F0", "U+1E950",
     "U+1FBF0"},
    {"1", "U+0661", "U+06F1", "U+07C1", "U+0967", "U+09E7", "U+0A67",
     "U+0AE7", "U+0B67", "U+0BE7", "U+0C67", "U+0CE7", "U+0D67", "U+0DE7",
     "U+0E51", "U+0ED1", "U+0F21", "U+1041", "U+1091", "U+17E1", "U+1811",
     "U+1947", "U+19D1", "U+1A81", "U+1A91", "U+1B51", "U+1BB1", "U+1C41",
     "U+1C51", "U+A621", "U+A8D1", "U+A901", "U+A9D1", "U+A9F1", "U+AA51",
     "U+ABF1", "U+FF11", "U+104A1", "U+10D31", "U+11067", "U+110F1",
     "U+11137", "U+111D1", "U+112F1", "U+11451", "U+114D1", "U+11651",
     "U+116C1", "U+11731", "U+118E1", "U+11951", "U+11C51", "U+11D51",
     "U+11DA1", "U+16A61", "U+16AC1", "U+16B51", "U+1D7CF", "U+1D7D9",
     "U+1D7E3", "U+1D7ED", "U+1D7F7", "U+1E141", "U+1E2F1", "U+1E951",
     "U+1FBF1"},
    {"2", "U+0662", "U+06F2", "U+07C2", "U+0968", "U+09E8", "U+0A68",
     "U+0AE8", "U+0B68", "U+0BE8", "U+0C68", "U+0CE8", "U+0D68", "U+0DE8",
     "U+0E52", "U+0ED2", "U+0F22", "U+1042", "U+1092", "U+17E2", "U+1812",
     "U+1948", "U+19D2", "U+1A82", "U+1A92", "U+1B52", "U+1BB2", "U+1C42",
     "U+1C52", "U+A622", "U+A8D2", "U+A902", "U+A9D2", "U+A9F2", "U+AA52",
     "U+ABF2", "U+FF12", "U+104A2", "U+10D32", "U+11068", "U+110F2",
     "U+11138", "U+111D2", "U+112F2", "U+11452", "U+114D2", "U+11652",
     "U+116C2", "U+11732", "U+118E2", "U+11952", "U+11C52", "U+11D52",
     "U+11DA2", "U+16A62", "U+16AC2", "U+16B52", "U+1D7D0", "U+1D7DA",
     "U+1D7E4", "U+1D7EE", "U+1D7F8", "U+1E142", "U+1E2F2", "U+1E952",
     "U+1FBF2"},
    {"3", "U+0663", "U+06F3", "U+07C3", "U+0969", "U+09E9", "U+0A69",
     "U+0AE9", "U+0B69", "U+0BE9", "U+0C69", "U+0CE9", "U+0D69", "U+0DE9",
     "U+0E53", "U+0ED3", "U+0F23", "U+1043", "U+1093", "U+17E3", "U+1813",
     "U+1949", "U+19D3", "U+1A83", "U+1A93", "U+1B53", "U+1BB3", "U+1C43",
     "U+1C53", "U+A623", "U+A8D3", "U+A903", "U+A9D3", "U+A9F3", "U+AA53",
     "U+ABF3", "U+FF13", "U+104A3", "U+10D33", "U+11069", "U+110F3",
     "U+11139", "U+111D3", "U+112F3", "U+11453", "U+114D3", "U+11653",
     "U+116C3", "U+11733", "U+118E3", "U+11953", "U+11C53", "U+11D53",
     "U+11DA3", "U+16A63", "U+16AC3", "U+16B53", "U+1D7D1", "U+1D7DB",
     "U+1D7E5", "U+1D7EF", "U+1D7F9", "U+1E143", "U+1E2F3", "U+1E953",
     "U+1FBF3"},
    {"4", "U+0664", "U+06F4", "U+07C4", "U+096A", "U+09EA", "U+0A6A",
     "U+0AEA", "U+0B6A", "U+0BEA", "U+0C6A", "U+0CEA", "U+0D6A", "U+0DEA",
     "U+0E54", "U+0ED4", "U+0F24", "U+1044", "U+1094", "U+17E4", "U+1814",
     "U+194A", "U+19D4", "U+1A84", "U+1A94", "U+1B54", "U+1BB4", "U+1C44",
     "U+1C54", "U+A624", "U+A8D4", "U+A904", "U+A9D4", "U+A9F4", "U+AA54",
     "U+ABF4", "U+FF14", "U+104A4", "U+10D34", "U+1106A", "U+110F4",
     "U+1113A", "U+111D4", "U+112F4", "U+11454", "U+114D4", "U+11654",
     "U+116C4", "U+11734", "U+118E4", "U+11954", "U+11C54", "U+11D54",
     "U+11DA4", "U+16A64", "U+16AC4", "U+16B54", "U+1D7D2", "U+1D7DC",
     "U+1D7E6", "U+1D7F0", "U+1D7FA", "U+1E144", "U+1E2F4", "U+1E954",
     "U+1FBF4"},
    {"5", "U+0665", "U+06F5", "U+07C5", "U+096B", "U+09EB", "U+0A6B",
     "U+0AEB", "U+0B6B", "U+0BEB", "U+0C6B", "U+0CEB", "U+0D6B", "U+0DEB",
     "U+0E55", "U+0ED5", "U+0F25", "U+1045", "U+1095", "U+17E5", "U+1815",
     "U+194B", "U+19D5", "U+1A85", "U+1A95", "U+1B55", "U+1BB5", "U+1C45",
     "U+1C55", "U+A625", "U+A8D5", "U+A905", "U+A9D5", "U+A9F5", "U+AA55",
     "U+ABF5", "U+FF15", "U+104A5", "U+10D35", "U+1106B", "U+110F5",
     "U+1113B", "U+111D5", "U+112F5", "U+11455", "U+114D5", "U+11655",
     "U+116C5", "U+11735", "U+118E5", "U+11955", "U+11C55", "U+11D55",
     "U+11DA5", "U+16A65", "U+16AC5", "U+16B55", "U+1D7D3", "U+1D7DD",
     "U+1D7E7", "U+1D7F1", "U+1D7FB", "U+1E145", "U+1E2F5", "U+1E955",
     "U+1FBF5"},
    {"6", "U+0666", "U+06F6", "U+07C6", "U+096C", "U+09EC", "U+0A6C",
     "U+0AEC", "U+0B6C", "U+0BEC", "U+0C6C", "U+0CEC", "U+0D6C", "U+0DEC",
     "U+0E56", "U+0ED6", "U+0F26", "U+1046", "U+1096", "U+17E6", "U+1816",
     "U+194C", "U+19D6", "U+1A86", "U+1A96", "U+1B56", "U+1BB6", "U+1C46",
     "U+1C56", "U+A626", "U+A8D6", "U+A906", "U+A9D6", "U+A9F6", "U+AA56",
     "U+ABF6", "U+FF16", "U+104A6", "U+10D36", "U+1106C", "U+110F6",
     "U+1113C", "U+111D6", "U+112F6", "U+11456", "U+114D6", "U+11656",
     "U+116C6", "U+11736", "U+118E6", "U+11956", "U+11C56", "U+11D56",
     "U+11DA6", "U+16A66", "U+16AC6", "U+16B56", "U+1D7D4", "U+1D7DE",
     "U+1D7E8", "U+1D7F2", "U+1D7FC", "U+1E146", "U+1E2F6", "U+1E956",
     "U+1FBF6"},
    {"7", "U+0667", "U+06F7", "U+07C7", "U+096D", "U+09ED", "U+0A6D",
     "U+0AED", "U+0B6D", "U+0BED", "U+0C6D", "U+0CED", "U+0D6D", "U+0DED",
     "U+0E57", "U+0ED7", "U+0F27", "U+1047", "U+1097", "U+17E7", "U+1817",
     "U+194D", "U+19D7", "U+1A87", "U+1A97", "U+1B57", "U+1BB7", "U+1C47",
     "U+1C57", "U+A627", "U+A8D7", "U+A907", "U+A9D7", "U+A9F7", "U+AA57",
     "U+ABF7", "U+FF17", "U+104A7", "U+10D37", "U+1106D", "U+110F7",
     "U+1113D", "U+111D7", "U+112F7", "U+11457", "U+114D7", "U+11657",
     "U+116C7", "U+11737", "U+118E7", "U+11957", "U+11C57", "U+11D57",
     "U+11DA7", "U+16A67", "U+16AC7", "U+16B57", "U+1D7D5", "U+1D7DF",
     "U+1D7E9", "U+1D7F3", "U+1D7FD", "U+1E147", "U+1E2F7", "U+1E957",
     "U+1FBF7"},
    {"8", "U+0668", "U+06F8", "U+07C8", "U+096E", "U+09EE", "U+0A6E",
     "U+0AEE", "U+0B6E", "U+0BEE", "U+0C6E", "U+0CEE", "U+0D6E", "U+0DEE",
     "U+0E58", "U+0ED8", "U+0F28", "U+1048", "U+1098", "U+17E8", "U+1818",
     "U+194E", "U+19D8", "U+1A88", "U+1A98", "U+1B58", "U+1BB8", "U+1C48",
     "U+1C58", "U+A628", "U+A8D8", "U+A908", "U+A9D8", "U+A9F8", "U+AA58",
     "U+ABF8", "U+FF18", "U+104A8", "U+10D38", "U+1106E", "U+110F8",
     "U+1113E", "U+111D8", "U+112F8", "U+11458", "U+114D8", "U+11658",
     "U+116C8", "U+11738", "U+118E8", "U+11958", "U+11C58", "U+11D58",
     "U+11DA8", "U+16A68", "U+16AC8", "U+16B58", "U+1D7D6", "U+1D7E0",
     "U+1D7EA", "U+1D7F4", "U+1D7FE", "U+1E148", "U+1E2F8", "U+1E958",
     "U+1FBF8"},
    {"9", "U+0669", "U+06F9", "U+07C9", "U+096F", "U+09EF", "U+0A6F",
     "U+0AEF", "U+0B6F", "U+0BEF", "U+0C6F", "U+0CEF", "U+0D6F", "U+0DEF",
     "U+0E59", "U+0ED9", "U+0F29", "U+1049", "U+1099", "U+17E9", "U+1819",
     "U+194F", "U+19D9", "U+1A89", "U+1A99", "U+1B59", "U+1BB9", "U+1C49",
     "U+1C59", "U+A629", "U+A8D9", "U+A909", "U+A9D9", "U+A9F9", "U+AA59",
     "U+ABF9", "U+FF19", "U+104A9", "U+10D39", "U+1106F", "U+110F9",
     "U+1113F", "U+111D9", "U+112F9", "U+11459", "U+114D9", "U+11659",
     "U+116C9", "U+11739", "U+118E9", "U+11959", "U+11C59", "U+11D59",
     "U+11DA9", "U+16A69", "U+16AC9", "U+16B59", "U+1D7D7", "U+1D7E1",
     "U+1D7EB", "U+1D7F5", "U+1D7FF", "U+1E149", "U+1E2F9", "U+1E959",
     "U+1FBF9"}
>>

\* The characters str.isdigit() is true of and int() raises ValueError on:
\* superscripts, circled digits and the like.
OtherDigits ==
    {"U+00B2", "U+00B3", "U+00B9", "U+1369", "U+136A", "U+136B", "U+136C",
     "U+136D", "U+136E", "U+136F", "U+1370", "U+1371", "U+19DA", "U+2070",
     "U+2074", "U+2075", "U+2076", "U+2077", "U+2078", "U+2079", "U+2080",
     "U+2081", "U+2082", "U+2083", "U+2084", "U+2085", "U+2086", "U+2087",
     "U+2088", "U+2089", "U+2460", "U+2461", "U+2462", "U+2463", "U+2464",
     "U+2465", "U+2466", "U+2467", "U+2468", "U+2474", "U+2475", "U+2476",
     "U+2477", "U+2478", "U+2479", "U+247A", "U+247B", "U+247C", "U+2488",
     "U+2489", "U+248A", "U+248B", "U+248C", "U+248D", "U+248E", "U+248F",
     "U+2490", "U+24EA", "U+24F5", "U+24F6", "U+24F7", "U+24F8", "U+24F9",
     "U+24FA", "U+24FB", "U+24FC", "U+24FD", "U+24FF", "U+2776", "U+2777",
     "U+2778", "U+2779", "U+277A", "U+277B", "U+277C", "U+277D", "U+277E",
     "U+2780", "U+2781", "U+2782", "U+2783", "U+2784", "U+2785", "U+2786",
     "U+2787", "U+2788", "U+278A", "U+278B", "U+278C", "U+278D", "U+278E",
     "U+278F", "U+2790", "U+2791", "U+2792", "U+10A40", "U+10A41", "U+10A42",
     "U+10A43", "U+10E60", "U+10E61", "U+10E62", "U+10E63", "U+10E64",
     "U+10E65", "U+10E66", "U+10E67", "U+10E68", "U+11052", "U+11053",
     "U+11054", "U+11055", "U+11056", "U+11057", "U+11058", "U+11059",
     "U+1105A", "U+1F100", "U+1F101", "U+1F102", "U+1F103", "U+1F104",
     "U+1F105", "U+1F106", "U+1F107", "U+1F108", "U+1F109", "U+1F10A"}

DecimalDigitChars == UNION {DecimalDigitsOf[v] : v \in DOMAIN DecimalDigitsOf}

\* str.isdigit() of one character.
IsDigitChar(c) == c \in DecimalDigitChars \cup OtherDigits

\* The value int() gives one decimal digit.
DigitValue(c) == (CHOOSE v \in DOMAIN DecimalDigitsOf : c \in DecimalDigitsOf[v]) - 1

\* str.upper() of one character, as a string.  No character but "n" gives
\* "N" and none but "a" gives "A"; nothing gives "/".
UpperTable ==
    [c \in {p[1] : p \in UpperCaseOf} |-> (CHOOSE p \in UpperCaseOf : p[1] = c)[2]]

UpperChar(c) == IF c \in DOMAIN UpperTable THEN UpperTable[c] ELSE <<c>>

\* ------------------------------------------------------------------ bytes
\* The files are read as UTF-8 text (the encoding is the locale's; UTF-8 is
\* taken).  A byte that is not part of any UTF-8 text stands in a file as
\* BadByte; the decoder raises UnicodeDecodeError when it takes it.
BadByte == "0xFF"

\* The characters of one byte.
Ascii ==
    {"U+0000", "U+0001", "U+0002", "U+0003", "U+0004", "U+0005", "U+0006",
     "U+0007", "U+0008", "\t", NL, "U+000B", "\f", CR, "U+000E", "U+000F",
     "U+0010", "U+0011", "U+0012", "U+0013", "U+0014", "U+0015", "U+0016",
     "U+0017", "U+0018", "U+0019", "U+001A", "U+001B", "U+001C", "U+001D",
     "U+001E", "U+001F", " ", "!", QUOTE, "#", "$", "%", "&", "'", "(", ")",
     "*", "+", ",", "-", ".", "/", "0", "1", "2", "3", "4", "5", "6", "7",
     "8", "9", ":", ";", "<", "=", ">", "?", "@", "A", "B", "C", "D", "E",
     "F", "G", "H", "I", "J", "K", "L", "M", "N", "O", "P", "Q", "R", "S",
     "T", "U", "V", "W", "X", "Y", "Z", "[", "\\", "]", "^", "_", "U+0060",
     "a", "b", "c", "d", "e", "f", "g", "h", "i", "j", "k", "l", "m", "n",
     "o", "p", "q", "r", "s", "t", "u", "v", "w", "x", "y", "z", "{", "|",
     "}", "~", "U+007F"}

\* The characters of two bytes: U+0080 to U+07FF.
TwoByteChars ==
    {"U+0080", "U+0081", "U+0082", "U+0083", "U+0084", "U+0085", "U+0086",
     "U+0087", "U+0088", "U+0089", "U+008A", "U+008B", "U+008C", "U+008D",
     "U+008E", "U+008F", "U+0090", "U+0091", "U+0092", "U+0093", "U+0094",
     "U+0095", "U+0096", "U+0097", "U+0098", "U+0099", "U+009A", "U+009B",
     "U+009C", "U+009D", "U+009E", "U+009F", "U+00A0", "U+00A1", "U+00A2",
     "U+00A3", "U+00A4", "U+00A5", "U+00A6", "U+00A7", "U+00A8", "U+00A9",
     "U+00AA", "U+00AB", "U+00AC", "U+00AD", "U+00AE", "U+00AF", "U+00B0",
     "U+00B1", "U+00B2", "U+00B3", "U+00B4", "U+00B5", "U+00B6", "U+00B7",
     "U+00B8", "U+00B9", "U+00BA", "U+00BB", "U+00BC", "U+00BD", "U+00BE",
     "U+00BF", "U+00C0", "U+00C1", "U+00C2", "U+00C3", "U+00C4", "U+00C5",
     "U+00C6", "U+00C7", "U+00C8", "U+00C9", "U+00CA", "U+00CB", "U+00CC",
     "U+00CD", "U+00CE", "U+00CF", "U+00D0", "U+00D1", "U+00D2", "U+00D3",
     "U+00D4", "U+00D5", "U+00D6", "U+00D7", "U+00D8", "U+00D9", "U+00DA",
     "U+00DB", "U+00DC", "U+00DD", "U+00DE", "U+00DF", "U+00E0", "U+00E1",
     "U+00E2", "U+00E3", "U+00E4", "U+00E5", "U+00E6", "U+00E7", "U+00E8",
     "U+00E9", "U+00EA", "U+00EB", "U+00EC", "U+00ED", "U+00EE", "U+00EF",
     "U+00F0", "U+00F1", "U+00F2", "U+00F3", "U+00F4", "U+00F5", "U+00F6",
     "U+00F7", "U+00F8", "U+00F9", "U+00FA", "U+00FB", "U+00FC", "U+00FD",
     "U+00FE", "U+00FF", "U+0100", "U+0101", "U+0102", "U+0103", "U+0104",
     "U+0105", "U+0106", "U+0107", "U+0108", "U+0109", "U+010A", "U+010B",
     "U+010C", "U+010D", "U+010E", "U+010F", "U+0110", "U+0111", "U+0112",
     "U+0113", "U+0114", "U+0115", "U+0116", "U+0117", "U+0118", "U+0119",
     "U+011A", "U+011B", "U+011C", "U+011D", "U+011E", "U+011F", "U+0120",
     "U+0121", "U+0122", "U+0123", "U+0124", "U+0125", "U+0126", "U+0127",
     "U+0128", "U+0129", "U+012A", "U+012B", "U+012C", "U+012D", "U+012E",
     "U+012F", "U+0130", "U+0131", "U+0132", "U+0133", "U+0134", "U+0135",
     "U+0136", "U+0137", "U+0138", "U+0139", "U+013A", "U+013B", "U+013C",
     "U+013D", "U+013E", "U+013F", "U+0140", "U+0141", "U+0142", "U+0143",
     "U+0144", "U+0145", "U+0146", "U+0147", "U+0148", "U+0149", "U+014A",
     "U+014B", "U+014C", "U+014D", "U+014E", "U+014F", "U+0150", "U+0151",
     "U+0152", "U+0153", "U+0154", "U+0155", "U+0156", "U+0157", "U+0158",
     "U+0159", "U+015A", "U+015B", "U+015C", "U+015D", "U+015E", "U+015F",
     "U+0160", "U+0161", "U+0162", "U+0163", "U+0164", "U+0165", "U+0166",
     "U+0167", "U+0168", "U+0169", "U+016A", "U+016B", "U+016C", "U+016D",
     "U+016E", "U+016F", "U+0170", "U+0171", "U+0172", "U+0173", "U+0174",
     "U+0175", "U+0176", "U+0177", "U+0178", "U+0179", "U+017A", "U+017B",
     "U+017C", "U+017D", "U+017E", "U+017F", "U+0180", "U+0181", "U+0182",
     "U+0183", "U+0184", "U+0185", "U+0186", "U+0187", "U+0188", "U+0189",
     "U+018A", "U+018B", "U+018C", "U+018D", "U+018E", "U+018F", "U+0190",
     "U+0191", "U+0192", "U+0193", "U+0194", "U+0195", "U+0196", "U+0197",
     "U+0198", "U+0199", "U+019A", "U+019B", "U+019C", "U+019D", "U+019E",
     "U+019F", "U+01A0", "U+01A1", "U+01A2", "U+01A3", "U+01A4", "U+01A5",
     "U+01A6", "U+01A7", "U+01A8", "U+01A9", "U+01AA", "U+01AB", "U+01AC",
     "U+01AD", "U+01AE", "U+01AF", "U+01B0", "U+01B1", "U+01B2", "U+01B3",
     "U+01B4", "U+01B5", "U+01B6", "U+01B7", "U+01B8", "U+01B9", "U+01BA",
     "U+01BB", "U+01BC", "U+01BD", "U+01BE", "U+01BF", "U+01C0", "U+01C1",
     "U+01C2", "U+01C3", "U+01C4", "U+01C5", "U+01C6", "U+01C7", "U+01C8",
     "U+01C9", "U+01CA", "U+01CB", "U+01CC", "U+01CD", "U+01CE", "U+01CF",
     "U+01D0", "U+01D1", "U+01D2", "U+01D3", "U+01D4", "U+01D5", "U+01D6",
     "U+01D7", "U+01D8", "U+01D9", "U+01DA", "U+01DB", "U+01DC", "U+01DD",
     "U+01DE", "U+01DF", "U+01E0", "U+01E1", "U+01E2", "U+01E3", "U+01E4",
     "U+01E5", "U+01E6", "U+01E7", "U+01E8", "U+01E9", "U+01EA", "U+01EB",
     "U+01EC", "U+01ED", "U+01EE", "U+01EF", "U+01F0", "U+01F1", "U+01F2",
     "U+01F3", "U+01F4", "U+01F5", "U+01F6", "U+01F7", "U+01F8", "U+01F9",
     "U+01FA", "U+01FB", "U+01FC", "U+01FD", "U+01FE", "U+01FF", "U+0200",
     "U+0201", "U+0202", "U+0203", "U+0204", "U+0205", "U+0206", "U+0207",
     "U+0208", "U+0209", "U+020A", "U+020B", "U+020C", "U+020D", "U+020E",
     "U+020F", "U+0210", "U+0211", "U+0212", "U+0213", "U+0214", "U+0215",
     "U+0216", "U+0217", "U+0218", "U+0219", "U+021A", "U+021B", "U+021C",
     "U+021D", "U+021E", "U+021F", "U+0220", "U+0221", "U+0222", "U+0223",
     "U+0224", "U+0225", "U+0226", "U+0227", "U+0228", "U+0229", "U+022A",
     "U+022B", "U+022C", "U+022D", "U+022E", "U+022F", "U+0230", "U+0231",
     "U+0232", "U+0233", "U+0234", "U+0235", "U+0236", "U+0237", "U+0238",
     "U+0239", "U+023A", "U+023B", "U+023C", "U+023D", "U+023E", "U+023F",
     "U+0240", "U+0241", "U+0242", "U+0243", "U+0244", "U+0245", "U+0246",
     "U+0247", "U+0248", "U+0249", "U+024A", "U+024B", "U+024C", "U+024D",
     "U+024E", "U+024F", "U+0250", "U+0251", "U+0252", "U+0253", "U+0254",
     "U+0255", "U+0256", "U+0257", "U+0258", "U+0259", "U+025A", "U+025B",
     "U+025C", "U+025D", "U+025E", "U+025F", "U+0260", "U+0261", "U+0262",
     "U+0263", "U+0264", "U+0265", "U+0266", "U+0267", "U+0268", "U+0269",
     "U+026A", "U+026B", "U+026C", "U+026D", "U+026E", "U+026F", "U+0270",
     "U+0271", "U+0272", "U+0273", "U+0274", "U+0275", "U+0276", "U+0277",
     "U+0278", "U+0279", "U+027A", "U+027B", "U+027C", "U+027D", "U+027E",
     "U+027F", "U+0280", "U+0281", "U+0282", "U+0283", "U+0284", "U+0285",
     "U+0286", "U+0287", "U+0288", "U+0289", "U+028A", "U+028B", "U+028C",
     "U+028D", "U+028E", "U+028F", "U+0290", "U+0291", "U+0292", "U+0293",
     "U+0294", "U+0295", "U+0296", "U+0297", "U+0298", "U+0299", "U+029A",
     "U+029B", "U+029C", "U+029D", "U+029E", "U+029F", "U+02A0", "U+02A1",
     "U+02A2", "U+02A3", "U+02A4", "U+02A5", "U+02A6", "U+02A7", "U+02A8",
     "U+02A9", "U+02AA", "U+02AB", "U+02AC", "U+02AD", "U+02AE", "U+02AF",
     "U+02B0", "U+02B1", "U+02B2", "U+02B3", "U+02B4", "U+02B5", "U+02B6",
     "U+02B7", "U+02B8", "U+02B9", "U+02BA", "U+02BB", "U+02BC", "U+02BD",
     "U+02BE", "U+02BF", "U+02C0", "U+02C1", "U+02C2", "U+02C3", "U+02C4",
     "U+02C5", "U+02C6", "U+02C7", "U+02C8", "U+02C9", "U+02CA", "U+02CB",
     "U+02CC", "U+02CD", "U+02CE", "U+02CF", "U+02D0", "U+02D1", "U+02D2",
     "U+02D3", "U+02D4", "U+02D5", "U+02D6", "U+02D7", "U+02D8", "U+02D9",
     "U+02DA", "U+02DB", "U+02DC", "U+02DD", "U+02DE", "U+02DF", "U+02E0",
     "U+02E1", "U+02E2", "U+02E3", "U+02E4", "U+02E5", "U+02E6", "U+02E7",
     "U+02E8", "U+02E9", "U+02EA", "U+02EB", "U+02EC", "U+02ED", "U+02EE",
     "U+02EF", "U+02F0", "U+02F1", "U+02F2", "U+02F3", "U+02F4", "U+02F5",
     "U+02F6", "U+02F7", "U+02F8", "U+02F9", "U+02FA", "U+02FB", "U+02FC",
     "U+02FD", "U+02FE", "U+02FF", "U+0300", "U+0301", "U+0302", "U+0303",
     "U+0304", "U+0305", "U+0306", "U+0307", "U+0308", "U+0309", "U+030A",
     "U+030B", "U+030C", "U+030D", "U+030E", "U+030F", "U+0310", "U+0311",
     "U+0312", "U+0313", "U+0314", "U+0315", "U+0316", "U+0317", "U+0318",
     "U+0319", "U+031A", "U+031B", "U+031C", "U+031D", "U+031E", "U+031F",
     "U+0320", "U+0321", "U+0322", "U+0323", "U+0324", "U+0325", "U+0326",
     "U+0327", "U+0328", "U+0329", "U+032A", "U+032B", "U+032C", "U+032D",
     "U+032E", "U+032F", "U+0330", "U+0331", "U+0332", "U+0333", "U+0334",
     "U+0335", "U+0336", "U+0337", "U+0338", "U+0339", "U+033A", "U+033B",
     "U+033C", "U+033D", "U+033E", "U+033F", "U+0340", "U+0341", "U+0342",
     "U+0343", "U+0344", "U+0345", "U+0346", "U+0347", "U+0348", "U+0349",
     "U+034A", "U+034B", "U+034C", "U+034D", "U+034E", "U+034F", "U+0350",
     "U+0351", "U+0352", "U+0353", "U+0354", "U+0355", "U+0356", "U+0357",
     "U+0358", "U+0359", "U+035A", "U+035B", "U+035C", "U+035D", "U+035E",
     "U+035F", "U+0360", "U+0361", "U+0362", "U+0363", "U+0364", "U+0365",
     "U+0366", "U+0367", "U+0368", "U+0369", "U+036A", "U+036B", "U+036C",
     "U+036D", "U+036E", "U+036F", "U+0370", "U+0371", "U+0372", "U+0373",
     "U+0374", "U+0375", "U+0376", "U+0377", "U+0378", "U+0379", "U+037A",
     "U+037B", "U+037C", "U+037D", "U+037E", "U+037F", "U+0380", "U+0381",
     "U+0382", "U+0383", "U+0384", "U+0385", "U+0386", "U+0387", "U+0388",
     "U+0389", "U+038A", "U+038B", "U+038C", "U+038D", "U+038E", "U+038F",
     "U+0390", "U+0391", "U+0392", "U+0393", "U+0394", "U+0395", "U+0396",
     "U+0397", "U+0398", "U+0399", "U+039A", "U+039B", "U+039C", "U+039D",
     "U+039E", "U+039F", "U+03A0", "U+03A1", "U+03A2", "U+03A3", "U+03A4",
     "U+03A5", "U+03A6", "U+03A7", "U+03A8", "U+03A9", "U+03AA", "U+03AB",
     "U+03AC", "U+03AD", "U+03AE", "U+03AF", "U+03B0", "U+03B1", "U+03B2",
     "U+03B3", "U+03B4", "U+03B5", "U+03B6", "U+03B7", "U+03B8", "U+03B9",
     "U+03BA", "U+03BB", "U+03BC", "U+03BD", "U+03BE", "U+03BF", "U+03C0",
     "U+03C1", "U+03C2", "U+03C3", "U+03C4", "U+03C5", "U+03C6", "U+03C7",
     "U+03C8", "U+03C9", "U+03CA", "U+03CB", "U+03CC", "U+03CD", "U+03CE",
     "U+03CF", "U+03D0", "U+03D1", "U+03D2", "U+03D3", "U+03D4", "U+03D5",
     "U+03D6", "U+03D7", "U+03D8", "U+03D9", "U+03DA", "U+03DB", "U+03DC",
     "U+03DD", "U+03DE", "U+03DF", "U+03E0", "U+03E1", "U+03E2", "U+03E3",
     "U+03E4", "U+03E5", "U+03E6", "U+03E7", "U+03E8", "U+03E9", "U+03EA",
     "U+03EB", "U+03EC", "U+03ED", "U+03EE", "U+03EF", "U+03F0", "U+03F1",
     "U+03F2", "U+03F3", "U+03F4", "U+03F5", "U+03F6", "U+03F7", "U+03F8",
     "U+03F9", "U+03FA", "U+03FB", "U+03FC", "U+03FD", "U+03FE", "U+03FF",
     "U+0400", "U+0401", "U+0402", "U+0403", "U+0404", "U+0405", "U+0406",
     "U+0407", "U+0408", "U+0409", "U+040A", "U+040B", "U+040C", "U+040D",
     "U+040E", "U+040F", "U+0410", "U+0411", "U+0412", "U+0413", "U+0414",
     "U+0415", "U+0416", "U+0417", "U+0418", "U+0419", "U+041A", "U+041B",
     "U+041C", "U+041D", "U+041E", "U+041F", "U+0420", "U+0421", "U+0422",
     "U+0423", "U+0424", "U+0425", "U+0426", "U+0427", "U+0428", "U+0429",
     "U+042A", "U+042B", "U+042C", "U+042D", "U+042E", "U+042F", "U+0430",
     "U+0431", "U+0432", "U+0433", "U+0434", "U+0435", "U+0436", "U+0437",
     "U+0438", "U+0439", "U+043A", "U+043B", "U+043C", "U+043D", "U+043E",
     "U+043F", "U+0440", "U+0441", "U+0442", "U+0443", "U+0444", "U+0445",
     "U+0446", "U+0447", "U+0448", "U+0449", "U+044A", "U+044B", "U+044C",
     "U+044D", "U+044E", "U+044F", "U+0450", "U+0451", "U+0452", "U+0453",
     "U+0454", "U+0455", "U+0456", "U+0457", "U+0458", "U+0459", "U+045A",
     "U+045B", "U+045C", "U+045D", "U+045E", "U+045F", "U+0460", "U+0461",
     "U+0462", "U+0463", "U+0464", "U+0465", "U+0466", "U+0467", "U+0468",
     "U+0469", "U+046A", "U+046B", "U+046C", "U+046D", "U+046E", "U+046F",
     "U+0470", "U+0471", "U+0472", "U+0473", "U+0474", "U+0475", "U+0476",
     "U+0477", "U+0478", "U+0479", "U+047A", "U+047B", "U+047C", "U+047D",
     "U+047E", "U+047F", "U+0480", "U+0481", "U+0482", "U+0483", "U+0484",
     "U+0485", "U+0486", "U+0487", "U+0488", "U+0489", "U+048A", "U+048B",
     "U+048C", "U+048D", "U+048E", "U+048F", "U+0490", "U+0491", "U+0492",
     "U+0493", "U+0494", "U+0495", "U+0496", "U+0497", "U+0498", "U+0499",
     "U+049A", "U+049B", "U+049C", "U+049D", "U+049E", "U+049F", "U+04A0",
     "U+04A1", "U+04A2", "U+04A3", "U+04A4", "U+04A5", "U+04A6", "U+04A7",
     "U+04A8", "U+04A9", "U+04AA", "U+04AB", "U+04AC", "U+04AD", "U+04AE",
     "U+04AF", "U+04B0", "U+04B1", "U+04B2", "U+04B3", "U+04B4", "U+04B5",
     "U+04B6", "U+04B7", "U+04B8", "U+04B9", "U+04BA", "U+04BB", "U+04BC",
     "U+04BD", "U+04BE", "U+04BF", "U+04C0", "U+04C1", "U+04C2", "U+04C3",
     "U+04C4", "U+04C5", "U+04C6", "U+04C7", "U+04C8", "U+04C9", "U+04CA",
     "U+04CB", "U+04CC", "U+04CD", "U+04CE", "U+04CF", "U+04D0", "U+04D1",
     "U+04D2", "U+04D3", "U+04D4", "U+04D5", "U+04D6", "U+04D7", "U+04D8",
     "U+04D9", "U+04DA", "U+04DB", "U+04DC", "U+04DD", "U+04DE", "U+04DF",
     "U+04E0", "U+04E1", "U+04E2", "U+04E3", "U+04E4", "U+04E5", "U+04E6",
     "U+04E7", "U+04E8", "U+04E9", "U+04EA", "U+04EB", "U+04EC", "U+04ED",
     "U+04EE", "U+04EF", "U+04F0", "U+04F1", "U+04F2", "U+04F3", "U+04F4",
     "U+04F5", "U+04F6", "U+04F7", "U+04F8", "U+04F9", "U+04FA", "U+04FB",
     "U+04FC", "U+04FD", "U+04FE", "U+04FF", "U+0500", "U+0501", "U+0502",
     "U+0503", "U+0504", "U+0505", "U+0506", "U+0507", "U+0508", "U+0509",
     "U+050A", "U+050B", "U+050C", "U+050D", "U+050E", "U+050F", "U+0510",
     "U+0511", "U+0512", "U+0513", "U+0514", "U+0515", "U+0516", "U+0517",
     "U+0518", "U+0519", "U+051A", "U+051B", "U+051C", "U+051D", "U+051E",
     "U+051F", "U+0520", "U+0521", "U+0522", "U+0523", "U+0524", "U+0525",
     "U+0526", "U+0527", "U+0528", "U+0529", "U+052A", "U+052B", "U+052C",
     "U+052D", "U+052E", "U+052F", "U+0530", "U+0531", "U+0532", "U+0533",
     "U+0534", "U+0535", "U+0536", "U+0537", "U+0538", "U+0539", "U+053A",
     "U+053B", "U+053C", "U+053D", "U+053E", "U+053F", "U+0540", "U+0541",
     "U+0542", "U+0543", "U+0544", "U+0545", "U+0546", "U+0547", "U+0548",
     "U+0549", "U+054A", "U+054B", "U+054C", "U+054D", "U+054E", "U+054F",
     "U+0550", "U+0551", "U+0552", "U+0553", "U+0554", "U+0555", "U+0556",
     "U+0557", "U+0558", "U+0559", "U+055A", "U+055B", "U+055C", "U+055D",
     "U+055E", "U+055F", "U+0560", "U+0561", "U+0562", "U+0563", "U+0564",
     "U+0565", "U+0566", "U+0567", "U+0568", "U+0569", "U+056A", "U+056B",
     "U+056C", "U+056D", "U+056E", "U+056F", "U+0570", "U+0571", "U+0572",
     "U+0573", "U+0574", "U+0575", "U+0576", "U+0577", "U+0578", "U+0579",
     "U+057A", "U+057B", "U+057C", "U+057D", "U+057E", "U+057F", "U+0580",
     "U+0581", "U+0582", "U+0583", "U+0584", "U+0585", "U+0586", "U+0587",
     "U+0588", "U+0589", "U+058A", "U+058B", "U+058C", "U+058D", "U+058E",
     "U+058F", "U+0590", "U+0591", "U+0592", "U+0593", "U+0594", "U+0595",
     "U+0596", "U+0597", "U+0598", "U+0599", "U+059A", "U+059B", "U+059C",
     "U+059D", "U+059E", "U+059F", "U+05A0", "U+05A1", "U+05A2", "U+05A3",
     "U+05A4", "U+05A5", "U+05A6", "U+05A7", "U+05A8", "U+05A9", "U+05AA",
     "U+05AB", "U+05AC", "U+05AD", "U+05AE", "U+05AF", "U+05B0", "U+05B1",
     "U+05B2", "U+05B3", "U+05B4", "U+05B5", "U+05B6", "U+05B7", "U+05B8",
     "U+05B9", "U+05BA", "U+05BB", "U+05BC", "U+05BD", "U+05BE", "U+05BF",
     "U+05C0", "U+05C1", "U+05C2", "U+05C3", "U+05C4", "U+05C5", "U+05C6",
     "U+05C7", "U+05C8", "U+05C9", "U+05CA", "U+05CB", "U+05CC", "U+05CD",
     "U+05CE", "U+05CF", "U+05D0", "U+05D1", "U+05D2", "U+05D3", "U+05D4",
     "U+05D5", "U+05D6", "U+05D7", "U+05D8", "U+05D9", "U+05DA", "U+05DB",
     "U+05DC", "U+05DD", "U+05DE", "U+05DF", "U+05E0", "U+05E1", "U+05E2",
     "U+05E3", "U+05E4", "U+05E5", "U+05E6", "U+05E7", "U+05E8", "U+05E9",
     "U+05EA", "U+05EB", "U+05EC", "U+05ED", "U+05EE", "U+05EF", "U+05F0",
     "U+05F1", "U+05F2", "U+05F3", "U+05F4", "U+05F5", "U+05F6", "U+05F7",
     "U+05F8", "U+05F9", "U+05FA", "U+05FB", "U+05FC", "U+05FD", "U+05FE",
     "U+05FF", "U+0600", "U+0601", "U+0602", "U+0603", "U+0604", "U+0605",
     "U+0606", "U+0607", "U+0608", "U+0609", "U+060A", "U+060B", "U+060C",
     "U+060D", "U+060E", "U+060F", "U+0610", "U+0611", "U+0612", "U+0613",
     "U+0614", "U+0615", "U+0616", "U+0617", "U+0618", "U+0619", "U+061A",
     "U+061B", "U+061C", "U+061D", "U+061E", "U+061F", "U+0620", "U+0621",
     "U+0622", "U+0623", "U+0624", "U+0625", "U+0626", "U+0627", "U+0628",
     "U+0629", "U+062A", "U+062B", "U+062C", "U+062D", "U+062E", "U+062F",
     "U+0630", "U+0631", "U+0632", "U+0633", "U+0634", "U+0635", "U+0636",
     "U+0637", "U+0638", "U+0639", "U+063A", "U+063B", "U+063C", "U+063D",
     "U+063E", "U+063F", "U+0640", "U+0641", "U+0642", "U+0643", "U+0644",
     "U+0645", "U+0646", "U+0647", "U+0648", "U+0649", "U+064A", "U+064B",
     "U+064C", "U+064D", "U+064E", "U+064F", "U+0650", "U+0651", "U+0652",
     "U+0653", "U+0654", "U+0655", "U+0656", "U+0657", "U+0658", "U+0659",
     "U+065A", "U+065B", "U+065C", "U+065D", "U+065E", "U+065F", "U+0660",
     "U+0661", "U+0662", "U+0663", "U+0664", "U+0665", "U+0666", "U+0667",
     "U+0668", "U+0669", "U+066A", "U+066B", "U+066C", "U+066D", "U+066E",
     "U+066F", "U+0670", "U+0671", "U+0672", "U+0673", "U+0674", "U+0675",
     "U+0676", "U+0677", "U+0678", "U+0679", "U+067A", "U+067B", "U+067C",
     "U+067D", "U+067E", "U+067F", "U+0680", "U+0681", "U+0682", "U+0683",
     "U+0684", "U+0685", "U+0686", "U+0687", "U+0688", "U+0689", "U+068A",
     "U+068B", "U+068C", "U+068D", "U+068E", "U+068F", "U+0690", "U+0691",
     "U+0692", "U+0693", "U+0694", "U+0695", "U+0696", "U+0697", "U+0698",
     "U+0699", "U+069A", "U+069B", "U+069C", "U+069D", "U+069E", "U+069F",
     "U+06A0", "U+06A1", "U+06A2", "U+06A3", "U+06A4", "U+06A5", "U+06A6",
     "U+06A7", "U+06A8", "U+06A9", "U+06AA", "U+06AB", "U+06AC", "U+06AD",
     "U+06AE", "U+06AF", "U+06B0", "U+06B1", "U+06B2", "U+06B3", "U+06B4",
     "U+06B5", "U+06B6", "U+06B7", "U+06B8", "U+06B9", "U+06BA", "U+06BB",
     "U+06BC", "U+06BD", "U+06BE", "U+06BF", "U+06C0", "U+06C1", "U+06C2",
     "U+06C3", "U+06C4", "U+06C5", "U+06C6", "U+06C7", "U+06C8", "U+06C9",
     "U+06CA", "U+06CB", "U+06CC", "U+06CD", "U+06CE", "U+06CF", "U+06D0",
     "U+06D1", "U+06D2", "U+06D3", "U+06D4", "U+06D5", "U+06D6", "U+06D7",
     "U+06D8", "U+06D9", "U+06DA", "U+06DB", "U+06DC", "U+06DD", "U+06DE",
     "U+06DF", "U+06E0", "U+06E1", "U+06E2", "U+06E3", "U+06E4", "U+06E5",
     "U+06E6", "U+06E7", "U+06E8", "U+06E9", "U+06EA", "U+06EB", "U+06EC",
     "U+06ED", "U+06EE", "U+06EF", "U+06F0", "U+06F1", "U+06F2", "U+06F3",
     "U+06F4", "U+06F5", "U+06F6", "U+06F7", "U+06F8", "U+06F9", "U+06FA",
     "U+06FB", "U+06FC", "U+06FD", "U+06FE", "U+06FF", "U+0700", "U+0701",
     "U+0702", "U+0703", "U+0704", "U+0705", "U+0706", "U+0707", "U+0708",
     "U+0709", "U+070A", "U+070B", "U+070C", "U+070D", "U+070E", "U+070F",
     "U+0710", "U+0711", "U+0712", "U+0713", "U+0714", "U+0715", "U+0716",
     "U+0717", "U+0718", "U+0719", "U+071A", "U+071B", "U+071C", "U+071D",
     "U+071E", "U+071F", "U+0720", "U+0721", "U+0722", "U+0723", "U+0724",
     "U+0725", "U+0726", "U+0727", "U+0728", "U+0729", "U+072A", "U+072B",
     "U+072C", "U+072D", "U+072E", "U+072F", "U+0730", "U+0731", "U+0732",
     "U+0733", "U+0734", "U+0735", "U+0736", "U+0737", "U+0738", "U+0739",
     "U+073A", "U+073B", "U+073C", "U+073D", "U+073E", "U+073F", "U+0740",
     "U+0741", "U+0742", "U+0743", "U+0744", "U+0745", "U+0746", "U+0747",
     "U+0748", "U+0749", "U+074A", "U+074B", "U+074C", "U+074D", "U+074E",
     "U+074F", "U+0750", "U+0751", "U+0752", "U+0753", "U+0754", "U+0755",
     "U+0756", "U+0757", "U+0758", "U+0759", "U+075A", "U+075B", "U+075C",
     "U+075D", "U+075E", "U+075F", "U+0760", "U+0761", "U+0762", "U+0763",
     "U+0764", "U+0765", "U+0766", "U+0767", "U+0768", "U+0769", "U+076A",
     "U+076B", "U+076C", "U+076D", "U+076E", "U+076F", "U+0770", "U+0771",
     "U+0772", "U+0773", "U+0774", "U+0775", "U+0776", "U+0777", "U+0778",
     "U+0779", "U+077A", "U+077B", "U+077C", "U+077D", "U+077E", "U+077F",
     "U+0780", "U+0781", "U+0782", "U+0783", "U+0784", "U+0785", "U+0786",
     "U+0787", "U+0788", "U+0789", "U+078A", "U+078B", "U+078C", "U+078D",
     "U+078E", "U+078F", "U+0790", "U+0791", "U+0792", "U+0793", "U+0794",
     "U+0795", "U+0796", "U+0797", "U+0798", "U+0799", "U+079A", "U+079B",
     "U+079C", "U+079D", "U+079E", "U+079F", "U+07A0", "U+07A1", "U+07A2",
     "U+07A3", "U+07A4", "U+07A5", "U+07A6", "U+07A7", "U+07A8", "U+07A9",
     "U+07AA", "U+07AB", "U+07AC", "U+07AD", "U+07AE", "U+07AF", "U+07B0",
     "U+07B1", "U+07B2", "U+07B3", "U+07B4", "U+07B5", "U+07B6", "U+07B7",
     "U+07B8", "U+07B9", "U+07BA", "U+07BB", "U+07BC", "U+07BD", "U+07BE",
     "U+07BF", "U+07C0", "U+07C1", "U+07C2", "U+07C3", "U+07C4", "U+07C5",
     "U+07C6", "U+07C7", "U+07C8", "U+07C9", "U+07CA", "U+07CB", "U+07CC",
     "U+07CD", "U+07CE", "U+07CF", "U+07D0", "U+07D1", "U+07D2", "U+07D3",
     "U+07D4", "U+07D5", "U+07D6", "U+07D7", "U+07D8", "U+07D9", "U+07DA",
     "U+07DB", "U+07DC", "U+07DD", "U+07DE", "U+07DF", "U+07E0", "U+07E1",
     "U+07E2", "U+07E3", "U+07E4", "U+07E5", "U+07E6", "U+07E7", "U+07E8",
     "U+07E9", "U+07EA", "U+07EB", "U+07EC", "U+07ED", "U+07EE", "U+07EF",
     "U+07F0", "U+07F1", "U+07F2", "U+07F3", "U+07F4", "U+07F5", "U+07F6",
     "U+07F7", "U+07F8", "U+07F9", "U+07FA", "U+07FB", "U+07FC", "U+07FD",
     "U+07FE", "U+07FF"}

\* The number of bytes of one character in the file: four for a character
\* above U+FFFF, whose code point is written with five or six digits, and
\* three for every other character that has not one or two.
Utf8Len(c) ==
    IF c \in Ascii THEN 1
    ELSE IF c \in TwoByteChars THEN 2
    ELSE IF Len(c) >= 7 THEN 4
    ELSE 3

\* The number of bytes of the characters s[lo..hi].
RECURSIVE Bytes(_, _, _)
Bytes(s, lo, hi) ==
    IF lo > hi THEN 0
    ELSE IF lo = hi THEN Utf8Len(s[lo])
    ELSE LET mid == (lo + hi) \div 2
         IN  Bytes(s, lo, mid) + Bytes(s, mid + 1, hi)

\* How many of the characters s[lo..hi], from s[lo] on, lie whole within
\* room bytes.
RECURSIVE CharsWithin(_, _, _, _)
CharsWithin(s, lo, hi, room) ==
    IF lo > hi THEN 0
    ELSE IF lo = hi THEN (IF Utf8Len(s[lo]) <= room THEN 1 ELSE 0)
    ELSE LET mid == (lo + hi) \div 2
             left == Bytes(s, lo, mid)
         IN  IF left <= room
             THEN (mid - lo + 1) + CharsWithin(s, mid + 1, hi, room - left)
             ELSE CharsWithin(s, lo, mid, room)

\* A text file object takes the bytes of its file in pieces of this size and
\* decodes each piece when it takes it.
DecodeChunk == 8192

\* The decoder will raise on this file.
Undecodable(content) == \E i \in DOMAIN content : content[i] = BadByte

\* The characters the decoder hands over before it raises: those of the
\* pieces before the piece that holds the first bad byte.
Decoded(content) ==
    LET bad == {i \in DOMAIN content : content[i] = BadByte}
        first == CHOOSE i \in bad : \A j \in bad : i <= j
        room == (Bytes(content, 1, first - 1) \div DecodeChunk) * DecodeChunk
    IN  SubSeq(content, 1, CharsWithin(content, 1, first - 1, room))

\* The lines readline() finds whole in text when reading on would raise:
\* text up to its last "\n", or its last "\r" that has a character after it.
WholeLines(text) ==
    LET ends == {i \in DOMAIN text : text[i] = NL \/ (text[i] = CR /\ i < Len(text))}
    IN  IF ends = {} THEN <<>>
        ELSE SubSeq(text, 1, CHOOSE i \in ends : \A j \in ends : j <= i)

\* The characters of the file that reach the program as lines.
Readable(content) ==
    IF Undecodable(content) THEN WholeLines(Decoded(content)) ELSE content

\* ---------------------------------------------------------------- strings

\* The strings of ss, joined.
RECURSIVE FlattenRange(_, _, _)
FlattenRange(ss, lo, hi) ==
    IF lo > hi THEN <<>>
    ELSE IF lo = hi THEN ss[lo]
    ELSE LET mid == (lo + hi) \div 2
         IN  FlattenRange(ss, lo, mid) \o FlattenRange(ss, mid + 1, hi)

Flatten(ss) == FlattenRange(ss, 1, Len(ss))

\* str.strip(): drop the whitespace at both ends.
\* The first position of lo..hi that holds no whitespace: hi + 1 when
\* none does, lo when lo..hi is empty.
RECURSIVE SkipSpaceIn(_, _, _)
SkipSpaceIn(s, lo, hi) ==
    IF lo > hi THEN lo
    ELSE IF ~(IsSpace(s[lo])) THEN lo
    ELSE IF lo = hi THEN lo + 1
    ELSE LET mid == (lo + 1 + hi) \div 2
             left == SkipSpaceIn(s, lo + 1, mid)
         IN  IF left <= mid THEN left ELSE SkipSpaceIn(s, mid + 1, hi)

\* The last position of lo..hi that holds no whitespace: lo - 1 when none
\* does, hi when lo..hi is empty.
RECURSIVE LastSolidIn(_, _, _)
LastSolidIn(s, lo, hi) ==
    IF lo > hi THEN hi
    ELSE IF ~IsSpace(s[hi]) THEN hi
    ELSE IF lo = hi THEN hi - 1
    ELSE LET mid == (lo + hi - 1) \div 2
             right == LastSolidIn(s, mid + 1, hi - 1)
         IN  IF right > mid THEN right ELSE LastSolidIn(s, lo, mid)

lstrip(s) == SubSeq(s, SkipSpaceIn(s, 1, Len(s)), Len(s))

rstrip(s) == SubSeq(s, 1, LastSolidIn(s, 1, Len(s)))

\* strip() without the right side.
stripLeft(s) == lstrip(s)

strip(s) == rstrip(lstrip(s))

\* str.isdigit(): at least one character, and every character a digit.
isdigit(s) == s # <<>> /\ \A i \in DOMAIN s : IsDigitChar(s[i])

\* upper() that changes nothing.
upperNone(s) == s

\* str.upper()
upper(s) == Flatten([i \in DOMAIN s |-> UpperChar(s[i])])

\* sys.get_int_max_str_digits(): the most digits int() reads.
MaxStrDigits == 4300

\* int(): raises ValueError on a digit string of more than MaxStrDigits
\* digits, leading zeros counted, or with a digit that is no decimal digit.
IntRaises(s) ==
    \/ Len(s) > MaxStrDigits
    \/ \E i \in DOMAIN s : s[i] \notin DecimalDigitChars

\* The number the digits s[1..n] denote.
RECURSIVE IntOf(_, _)
IntOf(s, n) ==
    IF n = 0 THEN 0 ELSE 10 * IntOf(s, n - 1) + DigitValue(s[n])

\* int() of a digit string it takes: the zeros in front add nothing.
int(s) ==
    LET solid == {i \in DOMAIN s : DigitValue(s[i]) # 0}
    IN  IF solid = {} THEN 0
        ELSE LET first == CHOOSE i \in solid : \A j \in solid : i <= j
             IN  IntOf(SubSeq(s, first, Len(s)), Len(s) - first + 1)

\* str() of an integer, as an f-string formats it.
RECURSIVE str(_)
str(n) ==
    IF n < 0 THEN <<"-">> \o str(0 - n)
    ELSE IF n < 10 THEN <<DecimalDigits[n + 1]>>
    ELSE str(n \div 10) \o <<DecimalDigits[(n % 10) + 1]>>

\* -------------------------------------------------------------- csv rows

\* csv.reader(f) over a file opened with newline='': the reader takes the
\* file line by line, a line ending after "\n", "\r\n" or a lone "\r", and
\* reads each line character by character, then the end-of-line mark EOL.
\* The dialect is "excel": delimiter ",", quote character '"', a doubled
\* quote inside a quoted field stands for one quote, not strict.
EOL == "EOL"

\* The reader at the start of the file: its state, the field and the row it
\* is collecting, and the rows it has yielded.
ReaderStart == [state |-> "START_RECORD", field |-> <<>>, fields |-> <<>>, rows |-> <<>>]

\* The field in hand is complete.
SaveField(p) == [p EXCEPT !.fields = Append(@, p.field), !.field = <<>>]

\* csv.field_size_limit(): the most characters of one field.
FieldSizeLimit == 131072

\* The reader adds c to the field in hand and goes to the state next.  A
\* field that already holds FieldSizeLimit characters makes it raise
\* _csv.Error: the reader is then in the state "ERROR" and takes no more.
AddChar(p, c, next) ==
    IF Len(p.field) >= FieldSizeLimit
    THEN [p EXCEPT !.state = "ERROR"]
    ELSE [p EXCEPT !.field = Append(@, c), !.state = next]

AfterLineEnd(c) == IF c = EOL THEN "START_RECORD" ELSE "EAT_CRNL"

\* The reader takes one character, or EOL.
ParseChar(p, c) ==
    CASE p.state = "ERROR" -> p
      [] p.state = "START_RECORD" /\ c = EOL -> p
      [] p.state = "START_RECORD" /\ c \in {NL, CR} -> [p EXCEPT !.state = "EAT_CRNL"]
      [] p.state \in {"START_RECORD", "START_FIELD"} /\ c \notin {NL, CR} ->
            IF c = EOL THEN [SaveField(p) EXCEPT !.state = "START_RECORD"]
            ELSE IF c = QUOTE THEN [p EXCEPT !.state = "IN_QUOTED_FIELD"]
            ELSE IF c = "," THEN [SaveField(p) EXCEPT !.state = "START_FIELD"]
            ELSE AddChar(p, c, "IN_FIELD")
      [] p.state = "START_FIELD" /\ c \in {NL, CR} ->
            [SaveField(p) EXCEPT !.state = "EAT_CRNL"]
      [] p.state = "IN_FIELD" ->
            IF c \in {NL, CR, EOL} THEN [SaveField(p) EXCEPT !.state = AfterLineEnd(c)]
            ELSE IF c = "," THEN [SaveField(p) EXCEPT !.state = "START_FIELD"]
            ELSE AddChar(p, c, "IN_FIELD")
      [] p.state = "IN_QUOTED_FIELD" ->
            IF c = EOL THEN p
            ELSE IF c = QUOTE THEN [p EXCEPT !.state = "QUOTE_IN_QUOTED_FIELD"]
            ELSE AddChar(p, c, "IN_QUOTED_FIELD")
      [] p.state = "QUOTE_IN_QUOTED_FIELD" ->
            IF c = QUOTE THEN AddChar(p, c, "IN_QUOTED_FIELD")
            ELSE IF c = "," THEN [SaveField(p) EXCEPT !.state = "START_FIELD"]
            ELSE IF c \in {NL, CR, EOL} THEN [SaveField(p) EXCEPT !.state = AfterLineEnd(c)]
            ELSE AddChar(p, c, "IN_FIELD")
      [] p.state = "EAT_CRNL" ->
            IF c = EOL THEN [p EXCEPT !.state = "START_RECORD"] ELSE p

\* The reader hands out the row it has collected.
YieldRow(p) == [p EXCEPT !.rows = Append(@, p.fields), !.fields = <<>>]

\* A line of the file ends at position i of s.
LineEndsAt(s, i) ==
    \/ s[i] = NL
    \/ s[i] = CR /\ ~(i < Len(s) /\ s[i + 1] = NL)
    \/ i = Len(s)

\* The reader takes the character at position i of s.  After the last
\* character of a line it takes EOL, and yields the row unless the line
\* ended inside a quoted field.
ParseAt(s, i, p) ==
    IF LineEndsAt(s, i)
    THEN LET q == ParseChar(ParseChar(p, s[i]), EOL)
         IN  IF q.state = "START_RECORD" THEN YieldRow(q) ELSE q
    ELSE ParseChar(p, s[i])

\* The reader takes the characters s[lo..hi], until it raises.
RECURSIVE ParseFrom(_, _, _, _)
ParseFrom(s, lo, hi, p) ==
    IF lo > hi THEN p
    ELSE IF lo = hi THEN ParseAt(s, lo, p)
    ELSE LET mid == (lo + hi) \div 2
             q == ParseFrom(s, lo, mid, p)
         IN  IF q.state = "ERROR" THEN q ELSE ParseFrom(s, mid + 1, hi, q)

\* `for row in reader` over a file of the characters content: the rows the
\* loop gets, and what ends it.  StopIteration is the end of the file: when
\* the file ends inside a quoted field the reader yields the row it has.
\* _csv.Error and UnicodeDecodeError leave the loop as exceptions, and the
\* row in hand is lost.
CsvRead(content) ==
    LET text == Readable(content)
        p == ParseFrom(text, 1, Len(text), ReaderStart)
    IN  IF p.state = "ERROR"
        THEN [rows |-> p.rows, raises |-> "_csv.Error"]
        ELSE IF Undecodable(content)
        THEN [rows |-> p.rows, raises |-> "UnicodeDecodeError"]
        ELSE IF p.state = "IN_QUOTED_FIELD" \/ p.field # <<>>
        THEN [rows |-> YieldRow(SaveField(p)).rows, raises |-> "StopIteration"]
        ELSE [rows |-> p.rows, raises |-> "StopIteration"]

\* ------------------------------------------------------------ text lines

\* open(input_file, 'r') and `for line in infile`: universal newlines.  A
\* line ends at "\n", "\r\n" or "\r", each handed to the program as "\n";
\* the last line has no terminator when the file does not end with one.
\* The positions of s[lo..hi] where a line ends, in order.
RECURSIVE LineEnds(_, _, _)
LineEnds(s, lo, hi) ==
    IF lo > hi THEN <<>>
    ELSE IF lo = hi THEN (IF LineEndsAt(s, lo) THEN <<lo>> ELSE <<>>)
    ELSE LET mid == (lo + hi) \div 2
         IN  LineEnds(s, lo, mid) \o LineEnds(s, mid + 1, hi)

\* A line as the program gets it: its terminator, if any, as "\n".
Translated(line) ==
    IF Len(line) >= 2 /\ line[Len(line) - 1] = CR /\ line[Len(line)] = NL
    THEN SubSeq(line, 1, Len(line) - 2) \o <<NL>>
    ELSE IF line[Len(line)] = CR
    THEN SubSeq(line, 1, Len(line) - 1) \o <<NL>>
    ELSE line

SplitLines(s) ==
    LET ends == LineEnds(s, 1, Len(s))
    IN  [k \in DOMAIN ends |->
            Translated(SubSeq(s, (IF k = 1 THEN 0 ELSE ends[k - 1]) + 1, ends[k]))]

\* The lines the loop gets; on a file with a bad byte, those it gets before
\* the decoder raises.
ReadLines(content) == SplitLines(Readable(content))

\* ------------------------------------------------------------- the pattern
\*     re.match(r'^(.*?)\s*=\s*"([^"]*)"(.*)$', line)

\* \s* from position i: the first position at or after i that holds no
\* whitespace (Len(s) + 1 when none does).
SkipSpace(s, i) == SkipSpaceIn(s, i, Len(s))

\* [^"]* from position i: the first position at or after i that holds a
\* quote (Len(s) + 1 when none does).
RECURSIVE SkipNonQuoteIn(_, _, _)
SkipNonQuoteIn(s, lo, hi) ==
    IF lo > hi THEN lo
    ELSE IF ~(s[lo] # QUOTE) THEN lo
    ELSE IF lo = hi THEN lo + 1
    ELSE LET mid == (lo + 1 + hi) \div 2
             left == SkipNonQuoteIn(s, lo + 1, mid)
         IN  IF left <= mid THEN left ELSE SkipNonQuoteIn(s, mid + 1, hi)

SkipNonQuote(s, i) == SkipNonQuoteIn(s, i, Len(s))

\* .* from position i: the first position at or after i that holds a
\* newline (Len(s) + 1 when none does).
RECURSIVE SkipDotIn(_, _, _)
SkipDotIn(s, lo, hi) ==
    IF lo > hi THEN lo
    ELSE IF ~(s[lo] # NL) THEN lo
    ELSE IF lo = hi THEN lo + 1
    ELSE LET mid == (lo + 1 + hi) \div 2
             left == SkipDotIn(s, lo + 1, mid)
         IN  IF left <= mid THEN left ELSE SkipDotIn(s, mid + 1, hi)

SkipDot(s, i) == SkipDotIn(s, i, Len(s))

\* The positions the pattern's pieces take, each from the one before it:
\* the = after a label that ends before position i, the opening quote after
\* the = at e, the closing quote after the opening one at o, and the end of
\* (.*) after the closing quote at c.
EqAt(s, i) == SkipSpace(s, i)
OpenAt(s, e) == SkipSpace(s, e + 1)
CloseAt(s, o) == SkipNonQuote(s, o + 1)
EndAt(s, c) == SkipDot(s, c + 1)

\* \s*=\s*"([^"]*)"(.*)$ matches from position i.  $ matches at the end of
\* the string and before a newline that ends it.
MatchesAt(s, i) ==
    LET e == EqAt(s, i)
    IN  /\ e <= Len(s)
        /\ s[e] = "="
        /\ LET o == OpenAt(s, e)
           IN  /\ o <= Len(s)
               /\ s[o] = QUOTE
               /\ LET c == CloseAt(s, o)
                  IN  /\ c <= Len(s)
                      /\ EndAt(s, c) >= Len(s)

\* (.*?) is lazy: it is tried with no character first and takes one more
\* character, never a newline, after each failure of the rest.  The result
\* is the position after the label, Len(s) + 2 when nothing matches.
\* The first position of lo..hi from which the rest matches, hi + 1 when
\* there is none.
RECURSIVE FirstMatchIn(_, _, _)
FirstMatchIn(s, lo, hi) ==
    IF lo > hi THEN lo
    ELSE IF MatchesAt(s, lo) THEN lo
    ELSE IF lo = hi THEN lo + 1
    ELSE LET mid == (lo + 1 + hi) \div 2
             left == FirstMatchIn(s, lo + 1, mid)
         IN  IF left <= mid THEN left ELSE FirstMatchIn(s, mid + 1, hi)

LabelEnd(s) ==
    LET limit == SkipDot(s, 1)
        first == FirstMatchIn(s, 1, limit)
    IN  IF first <= limit THEN first ELSE Len(s) + 2

\* `if match:`
Matches(s) == LabelEnd(s) <= Len(s) + 1

\* match.groups()
Groups(s) ==
    LET i == LabelEnd(s)
        o == OpenAt(s, EqAt(s, i))
        c == CloseAt(s, o)
    IN  [label |-> SubSeq(s, 1, i - 1),
         directory |-> SubSeq(s, o + 1, c - 1),
         rest_of_line |-> SubSeq(s, c + 1, EndAt(s, c) - 1)]

\* ------------------------------------------------------- load_line_counts

EmptyTable == [d \in {} |-> 0]

\* line_counts[directory] = value
Store(table, directory, value) ==
    [d \in DOMAIN table \cup {directory} |->
        IF d = directory THEN value ELSE table[d]]

\* The marker line 30 stores for "N/A".
NotApplicable == -1

NA == <<"N", "/", "A">>

\* row[0] or row[1] raises IndexError, or int() raises ValueError.
RowRaises(row) ==
    \/ Len(row) < 2
    \/ isdigit(strip(row[2])) /\ IntRaises(strip(row[2]))

\* The table after the body of the loop has run on one row.
LoadRow(table, row) ==
    IF RowRaises(row) THEN table
    ELSE LET directory == strip(row[1])
             line_count_str == strip(row[2])
         IN  IF isdigit(line_count_str)
             THEN Store(table, directory, int(line_count_str))
             ELSE IF upper(line_count_str) = NA
             THEN Store(table, directory, NotApplicable)
             ELSE table

\* What the loop prints after one row (the notice without the row it names).
RowNotices(row) ==
    IF RowRaises(row) THEN <<[notice |-> "Warning: Skipping malformed row"]>>
    ELSE <<>>

\* --------------------------------------------------------- process_file

\* The f-strings without their newline.
FormatNoNewline(label, directory, count, rest_of_line) ==
    label \o <<" ", "=", " ", QUOTE>> \o directory \o <<",", " ">> \o count
          \o <<QUOTE>> \o rest_of_line

\* The f-strings of lines 57, 59 and 62.
Format(label, directory, count, rest_of_line) ==
    label \o <<" ", "=", " ", QUOTE>> \o directory \o <<",", " ">> \o count
          \o <<QUOTE>> \o rest_of_line \o <<NL>>

NAText == <<"N", "/", "A">>
NotFoundText == <<"N", "o", "t", " ", "F", "o", "u", "n", "d">>

\* `if line_count:` in place of `is not None`: a count of 0 is not found.
FoundTruthy(table, directory) == directory \in DOMAIN table /\ table[directory] # 0

\* line_counts.get(directory) is not None
Found(table, directory) == directory \in DOMAIN table

\* new_line for a line that matches.
NewLine(line, table) ==
    LET g == Groups(line)
        directory == strip(g.directory)
    IN  IF Found(table, directory)
        THEN IF table[directory] = NotApplicable
             THEN Format(g.label, directory, NAText, g.rest_of_line)
             ELSE Format(g.label, directory, str(table[directory]), g.rest_of_line)
        ELSE Format(g.label, directory, NotFoundText, g.rest_of_line)

\* A loop that ends every line it writes with a newline.
WrittenTerminated(line, table) ==
    IF Matches(line) THEN NewLine(line, table) ELSE rstrip(line) \o <<NL>>

\* A loop that writes nothing for a line that does not match.
WrittenDropping(line, table) == IF Matches(line) THEN NewLine(line, table) ELSE <<>>

\* What outfile.write receives for one line.
Written(line, table) == IF Matches(line) THEN NewLine(line, table) ELSE line

\* ---------------------------------------------------------------- inputs

\* Lines of the CSV file, without their terminators.
\*     "bar",42
RecBar42 == <<QUOTE, "b", "a", "r", QUOTE, ",", "4", "2">>
\*     "\fbar"<U+00A0>, <U+0660>0<U+FF17><U+2003>      (bar -> 7)
RecBar007 == <<QUOTE, "\f", "b", "a", "r", QUOTE, "U+00A0", ",", " ", "U+0660", "0",
               "U+FF17", "U+2003">>
\*     b,n/A and a carriage return
RecBNa == <<"b", ",", "n", "/", "A", CR>>
\*     b,"0"
RecBZero == <<"b", ",", QUOTE, "0", QUOTE>>
\*     bar,,9
RecBarBlank == <<"b", "a", "r", ",", ",", "9">>
\*     "b,ar"
RecOneColumn == <<QUOTE, "b", ",", "a", "r", QUOTE>>
RecEmpty == <<>>
\*     b,<U+00B2>
RecBSup2 == <<"b", ",", SUP2>>
\*     b,"x     (the quote is not closed: the field runs on into the next line)
RecOpenQuote == <<"b", ",", QUOTE, "x">>

Records == {RecBar42, RecBar007, RecBNa, RecBZero, RecBarBlank, RecOneColumn,
            RecEmpty, RecBSup2, RecOpenQuote}

\* Every line of the CSV file ends with "\n".
CsvFiles ==
    UNION {{Flatten([i \in 1..n |-> rec[i] \o <<NL>>]) : rec \in [1..n -> Records]}
              : n \in 0..MaxRows}

\*     bar, and MaxStrDigits + 1 digits
RecBarLong == <<"b", "a", "r", ",">> \o [i \in 1..(MaxStrDigits + 1) |-> "1"]

\* CSV files of one or two lines, one of them with the long value.
LongCsvFiles ==
    LET short == {RecBar42, RecOneColumn, RecBarLong}
    IN  {RecBarLong \o <<NL>>}
            \cup {rec[1] \o <<NL>> \o rec[2] \o <<NL>> :
                     rec \in {r \in short \X short : RecBarLong \in {r[1], r[2]}}}

\* As many characters as the decoder takes bytes at a time.
Pad == [i \in 1..DecodeChunk |-> "1"]

\* CSV files with a bad byte: in the first piece of the file, and in the
\* second piece, after a line that lies whole in the first.
\*     b,<0xFF>
BadCsvShort == <<"b", ",", BadByte, NL>>
\*     "b,ar"
\*     c,111...
\*     d,<0xFF>
BadCsvLong ==
    RecOneColumn \o <<NL, "c", ",">> \o Pad \o <<NL, "d", ",", BadByte, NL>>

BadCsvFiles == {BadCsvShort, BadCsvLong}

\* Lines of the input file, without their terminators.
BodyFoo == <<"f", "o", "o", " ", "=", " ", QUOTE, "b", "a", "r", QUOTE, " ", " ",
             "#", " ", "c", "o", "m", "m", "e", "n", "t">>
BodyMissing == <<"x", " ", "=", " ", QUOTE, "m", "i", "s", "s", "i", "n", "g", QUOTE>>
BodyComment == <<"#", " ", "j", "u", "s", "t", " ", "a", " ",
                 "c", "o", "m", "m", "e", "n", "t">>
\*     a = y<U+3000>\f=\t"<U+00A0>b<U+001F>"z
BodyPadded == <<"a", " ", "=", " ", "y", "U+3000", "\f", "=", "\t", QUOTE, "U+00A0", "b",
                "U+001F", QUOTE, "z">>
BodyUnclosed == <<"n", " ", "=", " ", QUOTE, "b", "a", "r">>

Bodies == {BodyFoo, BodyMissing, BodyComment, BodyPadded, BodyUnclosed}

LF == <<NL>>
CRLF == <<CR, NL>>
NoTerminator == <<>>

\* Every line but the last ends with a terminator.
InputFiles ==
    UNION {
        { Flatten([i \in 1..n |-> body[i] \o term[i]]) :
            body \in [1..n -> Bodies],
            term \in {t \in [1..n -> {LF, CRLF, NoTerminator}] :
                        \A i \in 1..(n - 1) : t[i] # NoTerminator} }
        : n \in 0..MaxLines }

\* Input files with a bad byte: in the first piece of the file, and in the
\* second piece, after a line that lies whole in the first.
\*     foo = "bar"  # comment
\*     x = "missing<0xFF>"
BadInputShort ==
    BodyFoo \o <<NL>> \o SubSeq(BodyMissing, 1, Len(BodyMissing) - 1)
            \o <<BadByte, QUOTE, NL>>
\*     foo = "bar"  # comment
\*     #111...
\*     <0xFF>
BadInputLong == BodyFoo \o <<NL, "#">> \o Pad \o <<NL, BadByte, NL>>

BadInputFiles == {BadInputShort, BadInputLong}

\* What the output path holds before the run.
OldContent == <<"o", "l", "d", NL>>
\* The output file: whether it exists, the chunks it holds whole, and whether
\* it ends with a torn chunk: a part, not empty and not all, of the chunk
\* written after the whole ones.  Only a write cut short leaves a torn chunk.
NoFile == [exists |-> FALSE, chunks |-> <<>>, torn |-> FALSE]
OldFile == [exists |-> TRUE, chunks |-> <<OldContent>>, torn |-> FALSE]

\* The characters of the whole chunks of the output file.
Content(file) == Flatten(file.chunks)

\* ----------------------------------------------------------------- actions

Init ==
    /\ pc = "main"
    /\ argc \in {3, 4}
    /\ csv_rows = <<>>
    /\ csv_raises = ""
    /\ row_idx = 0
    /\ line_counts = EmptyTable
    /\ in_content = <<>>
    /\ in_lines = <<>>
    /\ line_idx = 0
    /\ out_file \in {NoFile, OldFile}
    /\ stdout = <<>>
    /\ stderr = <<>>
    /\ status = 0

\* main, lines 76-78: the wrong number of arguments.
Usage ==
    /\ pc = "main"
    /\ argc # 4
    /\ stdout' = Append(stdout, [notice |-> "Usage"])
    /\ status' = 1
    /\ pc' = "exited"
    /\ UNCHANGED <<argc, csv_rows, csv_raises, row_idx, line_counts, in_content,
                   in_lines, line_idx, out_file, stderr>>

\* main, line 84: call load_line_counts.
CallLoad ==
    /\ pc = "main"
    /\ argc = 4
    /\ pc' = "load_open"
    /\ UNCHANGED <<argc, csv_rows, csv_raises, row_idx, line_counts, in_content,
                   in_lines, line_idx, out_file, stdout, stderr, status>>

\* load_line_counts, lines 17-21: the CSV file exists and is opened, and
\* `reader` stands for the rows the loop will get from it.
LoadOpen ==
    /\ pc = "load_open"
    /\ \E content \in CsvFiles \cup LongCsvFiles \cup BadCsvFiles :
          LET read == CsvRead(content)
          IN  /\ csv_rows' = read.rows
              /\ csv_raises' = read.raises
    /\ row_idx' = 0
    /\ line_counts' = EmptyTable
    /\ pc' = "load_loop"
    /\ UNCHANGED <<argc, in_content, in_lines, line_idx, out_file, stdout,
                   stderr, status>>

\* load_line_counts, lines 36-38: the CSV file does not exist.
LoadNotFound ==
    /\ pc = "load_open"
    /\ line_counts' = EmptyTable
    /\ stderr' = Append(stderr, [notice |-> "Error: CSV file not found"])
    /\ pc' = "main_check"
    /\ UNCHANGED <<argc, csv_rows, csv_raises, row_idx, in_content, in_lines,
                   line_idx, out_file, stdout, status>>

\* load_line_counts, lines 18-21: an exception that is no FileNotFoundError.
\* open() raises another OSError (the path is a directory, or may not be
\* read), or, the rows before it consumed, `for row in reader` raises
\* _csv.Error or UnicodeDecodeError.  Nothing catches it: the interpreter
\* prints the traceback after the warnings of the rows consumed, and the
\* process ends with status 1.
LoadFault ==
    /\ \/ pc = "load_open"
       \/ /\ pc = "load_loop"
          /\ row_idx = Len(csv_rows)
          /\ csv_raises \in {"_csv.Error", "UnicodeDecodeError"}
    /\ csv_rows' = <<>>
    /\ csv_raises' = ""
    /\ row_idx' = 0
    /\ line_counts' = EmptyTable
    /\ stderr' = Append(stderr, [notice |-> "Traceback"])
    /\ status' = 1
    /\ pc' = "exited"
    /\ UNCHANGED <<argc, in_content, in_lines, line_idx, out_file, stdout>>

\* load_line_counts, lines 21-35: one turn of the loop.
LoadStep ==
    /\ pc = "load_loop"
    /\ row_idx < Len(csv_rows)
    /\ LET row == csv_rows[row_idx + 1]
       IN  /\ line_counts' = LoadRow(line_counts, row)
           /\ stderr' = stderr \o RowNotices(row)
    /\ row_idx' = row_idx + 1
    /\ UNCHANGED <<pc, argc, csv_rows, csv_raises, in_content, in_lines,
                   line_idx, out_file, stdout, status>>

\* load_line_counts, line 38: the rows are exhausted, the file is closed and
\* the table is returned.
LoadReturn ==
    /\ pc = "load_loop"
    /\ row_idx = Len(csv_rows)
    /\ csv_raises = "StopIteration"
    /\ csv_rows' = <<>>
    /\ csv_raises' = ""
    /\ row_idx' = 0
    /\ pc' = "main_check"
    /\ UNCHANGED <<argc, line_counts, in_content, in_lines, line_idx, out_file,
                   stdout, stderr, status>>

\* main, lines 85-86: an empty table ends the run.
ExitNoTable ==
    /\ pc = "main_check"
    /\ DOMAIN line_counts = {}
    /\ status' = 1
    /\ pc' = "exited"
    /\ UNCHANGED <<argc, csv_rows, csv_raises, row_idx, line_counts, in_content,
                   in_lines, line_idx, out_file, stdout, stderr>>

\* main without the check of lines 85-86.
CallProcessUnchecked ==
    /\ pc = "main_check"
    /\ pc' = "process_open"
    /\ UNCHANGED <<argc, csv_rows, csv_raises, row_idx, line_counts, in_content,
                   in_lines, line_idx, out_file, stdout, stderr, status>>

\* main, line 88: call process_file.
CallProcess ==
    /\ pc = "main_check"
    /\ DOMAIN line_counts # {}
    /\ pc' = "process_open"
    /\ UNCHANGED <<argc, csv_rows, csv_raises, row_idx, line_counts, in_content,
                   in_lines, line_idx, out_file, stdout, stderr, status>>

\* process_file, line 47: both files are opened; the output file is created
\* or truncated.
ProcessOpen ==
    /\ pc = "process_open"
    /\ \E content \in InputFiles \cup BadInputFiles :
        /\ in_content' = content
        /\ in_lines' = ReadLines(content)
    /\ line_idx' = 0
    /\ out_file' = [exists |-> TRUE, chunks |-> <<>>, torn |-> FALSE]
    /\ pc' = "process_loop"
    /\ UNCHANGED <<argc, csv_rows, csv_raises, row_idx, line_counts, stdout,
                   stderr, status>>

\* process_file, lines 67-69: open() raises FileNotFoundError; no file is
\* created or changed.  sys.exit(1) ends the process, and with it the table.
InputNotFound ==
    /\ pc = "process_open"
    /\ stderr' = Append(stderr, [notice |-> "Error: Input file not found"])
    /\ status' = 1
    /\ line_counts' = EmptyTable
    /\ pc' = "exited"
    /\ UNCHANGED <<argc, csv_rows, csv_raises, row_idx, in_content, in_lines,
                   line_idx, out_file, stdout>>

\* process_file, lines 47 and 70-72: open() raises another IOError; no file
\* is created or changed.
OutputFault ==
    /\ pc = "process_open"
    /\ stderr' = Append(stderr, [notice |-> "Error reading/writing files"])
    /\ status' = 1
    /\ line_counts' = EmptyTable
    /\ pc' = "exited"
    /\ UNCHANGED <<argc, csv_rows, csv_raises, row_idx, in_content, in_lines,
                   line_idx, out_file, stdout>>

\* process_file, lines 47-48: the lines before it consumed, `for line in
\* infile` raises UnicodeDecodeError, which is no IOError.  The files are
\* closed, the output file with all that was written; nothing catches the
\* exception: the interpreter prints the traceback and the process ends
\* with status 1.
ProcessCrash ==
    /\ pc = "process_loop"
    /\ line_idx = Len(in_lines)
    /\ Undecodable(in_content)
    /\ stderr' = Append(stderr, [notice |-> "Traceback"])
    /\ status' = 1
    /\ line_counts' = EmptyTable
    /\ in_lines' = <<>>
    /\ line_idx' = 0
    /\ pc' = "exited"
    /\ UNCHANGED <<argc, csv_rows, csv_raises, row_idx, in_content, out_file,
                   stdout>>

\* process_file, lines 48-65 and 70-72: an IOError in the loop or at the
\* close of the files (a read that fails, a write or flush that the disk or
\* a size limit refuses).  Writes are buffered, so the output file is left
\* with some beginning of what was written: kept whole chunks, and a torn
\* chunk after them when the cut fell inside a chunk.
ProcessFault ==
    /\ pc = "process_loop"
    /\ \E kept \in 0..line_idx, torn \in BOOLEAN :
          /\ torn => kept < line_idx
          /\ out_file' = [out_file EXCEPT !.chunks = SubSeq(@, 1, kept), !.torn = torn]
    /\ stderr' = Append(stderr, [notice |-> "Error reading/writing files"])
    /\ status' = 1
    /\ line_counts' = EmptyTable
    /\ in_lines' = <<>>
    /\ line_idx' = 0
    /\ pc' = "exited"
    /\ UNCHANGED <<argc, csv_rows, csv_raises, row_idx, in_content, stdout>>

\* process_file, lines 48-65: one turn of the loop.
ProcessStep ==
    /\ pc = "process_loop"
    /\ line_idx < Len(in_lines)
    /\ out_file' = [out_file EXCEPT
                      !.chunks = Append(@, Written(in_lines[line_idx + 1], line_counts))]
    /\ line_idx' = line_idx + 1
    /\ UNCHANGED <<pc, argc, csv_rows, csv_raises, row_idx, line_counts,
                   in_content, in_lines, stdout, stderr, status>>

\* process_file, line 47: the loop is over and the files are closed;
\* process_file returns and main ends: exit status 0.
ProcessReturn ==
    /\ pc = "process_loop"
    /\ line_idx = Len(in_lines)
    /\ ~Undecodable(in_content)
    /\ line_counts' = EmptyTable
    /\ in_lines' = <<>>
    /\ line_idx' = 0
    /\ pc' = "exited"
    /\ UNCHANGED <<argc, csv_rows, csv_raises, row_idx, in_content, out_file,
                   stdout, stderr, status>>

Next ==
    \/ Usage
    \/ CallLoad
    \/ LoadOpen
    \/ LoadNotFound
    \/ LoadFault
    \/ LoadStep
    \/ LoadReturn
    \/ ExitNoTable
    \/ CallProcess
    \/ ProcessOpen
    \/ InputNotFound
    \/ OutputFault
    \/ ProcessStep
    \/ ProcessFault
    \/ ProcessCrash
    \/ ProcessReturn

Spec == Init /\ [][Next]_vars

\* ------------------------------------------- vocabulary of the properties

\* s without the whitespace at its ends, found by position.
Trimmed(s) ==
    LET solid == {i \in DOMAIN s : ~IsSpace(s[i])}
    IN  IF solid = {} THEN <<>>
        ELSE SubSeq(s, CHOOSE i \in solid : \A j \in solid : i <= j,
                       CHOOSE i \in solid : \A j \in solid : j <= i)

\* The value of a decimal digit, of whatever script.
DigitOf(c) == CHOOSE v \in 0..9 : c \in DecimalDigitsOf[v + 1]

\* s consists entirely of decimal digits.
DigitOnly(s) == s # <<>> /\ \A i \in DOMAIN s : s[i] \in DecimalDigitChars

RECURSIVE Horner(_, _)
Horner(s, acc) ==
    IF s = <<>> THEN acc ELSE Horner(Tail(s), 10 * acc + DigitOf(Head(s)))

\* s is the decimal form of n: the digits 0-9 only, no leading zero, value n.
DecimalFormOf(s, n) ==
    /\ DigitOnly(s)
    /\ \A i \in DOMAIN s : s[i] \in Range(DecimalDigits)
    /\ Len(s) > 1 => s[1] # "0"
    /\ Horner(s, 0) = n

\* The digits of the natural number n, the most significant first.
RECURSIVE NatDigits(_)
NatDigits(n) == IF n < 10 THEN <<n>> ELSE Append(NatDigits(n \div 10), n % 10)

\* The digit string s, of whatever length, denotes the number n.
Denotes(s, n) ==
    /\ n >= 0
    /\ LET zeros == Len(s) - Len(NatDigits(n))
       IN  /\ zeros >= 0
           /\ \A i \in 1..zeros : DigitOf(s[i]) = 0
           /\ \A i \in DOMAIN NatDigits(n) : DigitOf(s[zeros + i]) = NatDigits(n)[i]

\* s equals "N/A" without regard to case.
IsNA(s) ==
    /\ Len(s) = 3
    /\ s[1] \in {"n", "N"}
    /\ s[2] = "/"
    /\ s[3] \in {"a", "A"}

\* A row the table takes an entry from, and the entry.
RowValid(row) ==
    Len(row) >= 2 /\ (DigitOnly(Trimmed(row[2])) \/ IsNA(Trimmed(row[2])))

RowKey(row) == Trimmed(row[1])

\* n is the value of the valid row: the marker, or the number of its digits.
RowValueIs(row, n) ==
    IF IsNA(Trimmed(row[2])) THEN n = -1 ELSE Denotes(Trimmed(row[2]), n)

\* The rows the loop of load_line_counts has consumed.
Consumed == 1..row_idx

\* The lines the loop of process_file has consumed; the i-th chunk of the
\* output file was written for the i-th of them.
Processed == IF pc = "process_loop" THEN 1..line_idx ELSE {}

Line(i) == in_lines[i]
Chunk(i) == out_file.chunks[i]

\* label = "directory, text"rest and one newline
Rendered(label, directory, text, rest) ==
    label \o <<" ", "=", " ", QUOTE>> \o directory \o <<",", " ">> \o text
          \o <<QUOTE>> \o rest \o <<NL>>

\* The part of chunk c that stands between `directory, ` and `"rest`.
CountText(c, g) ==
    SubSeq(c, Len(g.label) + Len(Trimmed(g.directory)) + 7,
              Len(c) - Len(g.rest_of_line) - 2)

\* The positions of s where the terminator of a line ends.
TerminatorEnds(s) ==
    {i \in DOMAIN s : s[i] = NL \/ (s[i] = CR /\ ~(i < Len(s) /\ s[i + 1] = NL))}

\* The lines of the input file as stored, each with its text and the
\* terminator it has in the file.
StoredLines(s) ==
    LET ends == TerminatorEnds(s)
        n == Cardinality(ends)
        end(k) == IF k = 0 THEN 0
                  ELSE CHOOSE i \in ends : Cardinality({j \in ends : j <= i}) = k
        width(e) == IF s[e] = NL /\ e > 1 /\ s[e - 1] = CR THEN 2 ELSE 1
    IN  [k \in 1..(n + (IF end(n) < Len(s) THEN 1 ELSE 0)) |->
            IF k <= n
            THEN [text |-> SubSeq(s, end(k - 1) + 1, end(k) - width(end(k))),
                  term |-> SubSeq(s, end(k) - width(end(k)) + 1, end(k))]
            ELSE [text |-> SubSeq(s, end(n) + 1, Len(s)), term |-> <<>>]]

EndsWithNewline(s) == s # <<>> /\ s[Len(s)] = NL

\* The number of lines of a text: its newlines, and an unterminated rest.
CountLines(s) ==
    Cardinality({k \in DOMAIN s : s[k] = NL})
        + (IF s # <<>> /\ ~EndsWithNewline(s) THEN 1 ELSE 0)

\* The table is the one the first n rows of the CSV file stand for: under
\* each trimmed directory of a valid row, the value of the last valid row
\* that has it.
TableIsExpected(n) ==
    LET valid == {i \in 1..n : RowValid(csv_rows[i])}
        last(d) == CHOOSE i \in valid :
                      /\ RowKey(csv_rows[i]) = d
                      /\ \A j \in valid : RowKey(csv_rows[j]) = d => j <= i
    IN  /\ DOMAIN line_counts = {RowKey(csv_rows[i]) : i \in valid}
        /\ \A d \in DOMAIN line_counts : RowValueIs(csv_rows[last(d)], line_counts[d])

\* The run is in the loop of process_file.
Rewriting == pc = "process_loop"

\* The run has ended with status 0: process_file has returned.
Succeeded == pc = "exited" /\ status = 0

\* ---------------------------------------------------------------- claims

BarKey == <<"b", "a", "r">>
BKey == <<"b">>

\* C1: every matched line whose trimmed directory the table maps to a line
\* count N >= 0 is written as  label = "directory, N"rest  and one newline,
\* N in decimal; `foo = "bar"  # comment` with bar -> 42 is written as
\* `foo = "bar, 42"  # comment`.
C1_CountRendered ==
    \A i \in Processed :
        LET g == Groups(Line(i))
            d == Trimmed(g.directory)
        IN  (Matches(Line(i)) /\ d \in DOMAIN line_counts /\ line_counts[d] >= 0) =>
                /\ DecimalFormOf(CountText(Chunk(i), g), line_counts[d])
                /\ Chunk(i) = Rendered(g.label, d, CountText(Chunk(i), g), g.rest_of_line)
                /\ (Line(i) \in {BodyFoo, BodyFoo \o LF} /\ line_counts[d] = 42) =>
                       Chunk(i) = <<"f", "o", "o", " ", "=", " ", QUOTE, "b", "a", "r",
                                    ",", " ", "4", "2", QUOTE, " ", " ", "#", " ",
                                    "c", "o", "m", "m", "e", "n", "t", NL>>

\* C1 happens: the padded line was rewritten with the count 0 of b, and the
\* line `foo = "bar"  # comment` with the count 7 read from the digits
\* U+0660 0 U+FF17 of three scripts.
C1_Witness ==
    /\ pc = "process_loop"
    /\ line_idx = 2
    /\ Line(1) = BodyPadded \o LF
    /\ Line(2) = BodyFoo
    /\ DOMAIN line_counts = {BKey, BarKey}
    /\ line_counts[BKey] = 0
    /\ line_counts[BarKey] = 7
    /\ Chunk(2) = <<"f", "o", "o", " ", "=", " ", QUOTE, "b", "a", "r", ",", " ", "7",
                    QUOTE, " ", " ", "#", " ", "c", "o", "m", "m", "e", "n", "t", NL>>

\* C2: a row whose trimmed value is "N/A" in any case stores the marker -1
\* under its trimmed directory, and a matched line of a directory that maps
\* to the marker is written as  label = "directory, N/A"rest  and one newline.
C2_NotApplicable ==
    /\ (pc = "load_loop" /\ row_idx >= 1) =>
          LET row == csv_rows[row_idx]
          IN  (Len(row) >= 2 /\ IsNA(Trimmed(row[2]))) =>
                  /\ RowKey(row) \in DOMAIN line_counts
                  /\ line_counts[RowKey(row)] = -1
    /\ \A i \in Processed :
          LET g == Groups(Line(i))
              d == Trimmed(g.directory)
          IN  (Matches(Line(i)) /\ d \in DOMAIN line_counts /\ line_counts[d] = -1) =>
                  Chunk(i) = Rendered(g.label, d, <<"N", "/", "A">>, g.rest_of_line)

\* C2 happens: the row b,n/A was loaded and the line of b was rewritten.
C2_Witness ==
    /\ pc = "process_loop"
    /\ line_idx >= 1
    /\ Line(1) = BodyPadded \o LF
    /\ BKey \in DOMAIN line_counts
    /\ line_counts[BKey] = -1
    /\ Chunk(1) = <<"a", " ", "=", " ", "y", " ", "=", " ", QUOTE, "b", ",", " ",
                    "N", "/", "A", QUOTE, "z", NL>>

\* C3: every matched line whose trimmed directory has no entry in the table
\* is written as  label = "directory, Not Found"rest  and one newline;
\* `x = "missing"` is written as `x = "missing, Not Found"`.
C3_NotFound ==
    \A i \in Processed :
        LET g == Groups(Line(i))
            d == Trimmed(g.directory)
        IN  (Matches(Line(i)) /\ d \notin DOMAIN line_counts) =>
                /\ Chunk(i) = Rendered(g.label, d,
                                       <<"N", "o", "t", " ", "F", "o", "u", "n", "d">>,
                                       g.rest_of_line)
                /\ Line(i) \in {BodyMissing, BodyMissing \o LF} =>
                       Chunk(i) = <<"x", " ", "=", " ", QUOTE, "m", "i", "s", "s", "i",
                                    "n", "g", ",", " ", "N", "o", "t", " ", "F", "o",
                                    "u", "n", "d", QUOTE, NL>>

\* C3 happens: `x = "missing"` and the padded line of b were rewritten with
\* a table that has neither directory.
C3_Witness ==
    /\ pc = "process_loop"
    /\ line_idx = 2
    /\ Line(1) = BodyMissing \o LF
    /\ Line(2) = BodyPadded
    /\ BKey \notin DOMAIN line_counts
    /\ Chunk(2) = <<"a", " ", "=", " ", "y", " ", "=", " ", QUOTE, "b", ",", " ",
                    "N", "o", "t", " ", "F", "o", "u", "n", "d", QUOTE, "z", NL>>

\* C4 as stated: every line that does not match is written character for
\* character as the input file has it, its original terminator included.
C4_StoredLineCopied ==
    LET stored == StoredLines(in_content)
    IN  \A i \in Processed :
            ~Matches(Line(i)) => Chunk(i) = stored[i].text \o stored[i].term

\* C4 as amended: every line that does not match is written with its text
\* unchanged and with the terminator process_file read: "\n" when the line
\* has a terminator in the file ("\n", "\r\n" or "\r"), none when it has none.
C4_ReadLineCopied ==
    LET stored == StoredLines(in_content)
    IN  \A i \in Processed :
            ~Matches(Line(i)) =>
                Chunk(i) = stored[i].text \o (IF stored[i].term = <<>> THEN <<>> ELSE <<NL>>)

\* C4 happens: a comment line ending in "\r\n" and an unterminated line with
\* an unclosed quote were passed through.
C4_Witness ==
    /\ pc = "process_loop"
    /\ line_idx = 2
    /\ in_content = BodyComment \o CRLF \o BodyUnclosed
    /\ Chunk(1) = BodyComment \o LF
    /\ Chunk(2) = BodyUnclosed

\* C5 as stated: after a successful run every line written to the output
\* file ends with a newline.
C5_EveryLineTerminated ==
    Succeeded => \A i \in 1..Len(out_file.chunks) : EndsWithNewline(Chunk(i))

\* C5 as amended: a rewritten line ends with a newline whatever the input
\* line ended with; a line passed through ends with a newline exactly when
\* the input line has a terminator; so after a successful run the output
\* ends with a newline unless its last line was passed through from an
\* unterminated last input line.
C5_RewrittenLineTerminated ==
    LET stored == StoredLines(in_content)
    IN  /\ \A i \in Processed :
              IF Matches(Line(i))
              THEN EndsWithNewline(Chunk(i))
              ELSE EndsWithNewline(Chunk(i)) <=> stored[i].term # <<>>
        /\ (Succeeded /\ stored # <<>>) =>
              (EndsWithNewline(Content(out_file)) <=>
                   \/ Matches(ReadLines(in_content)[Len(stored)])
                   \/ stored[Len(stored)].term # <<>>)

\* C5 happens: an unterminated matching last line was written with a
\* newline, after a comment line.
C5_Witness ==
    /\ Succeeded
    /\ in_content = BodyComment \o LF \o BodyMissing
    /\ Len(out_file.chunks) = 2
    /\ EndsWithNewline(Chunk(2))

\* C6 as stated: a row of two or more columns whose trimmed value is neither
\* digit-only nor "N/A" adds nothing to the table and is reported by a
\* warning.
C6_InvalidValueWarned ==
    pc = "load_loop" =>
        \A i \in Consumed :
            LET row == csv_rows[i]
            IN  (Len(row) >= 2 /\ ~RowValid(row)) =>
                    /\ TableIsExpected(row_idx)
                    /\ Len(stderr) >= Cardinality({j \in 1..i : ~RowValid(csv_rows[j])})

\* C7 as stated: a row of fewer than two columns is reported by a warning
\* and leaves the table as it was; the loop goes on, and the directory of
\* every valid row before and after it is in the table.
C7_ShortRowSkipped ==
    pc = "load_loop" =>
        /\ Len(stderr) >= Cardinality({i \in Consumed : Len(csv_rows[i]) < 2})
        /\ \A k \in DOMAIN stderr : stderr[k].notice = "Warning: Skipping malformed row"
        /\ (row_idx >= 1 /\ Len(csv_rows[row_idx]) < 2) => TableIsExpected(row_idx - 1)
        /\ (\E i \in Consumed : Len(csv_rows[i]) < 2) =>
              \A i \in Consumed :
                  RowValid(csv_rows[i]) => RowKey(csv_rows[i]) \in DOMAIN line_counts

\* C8: when load_line_counts has returned an empty table, the next step of
\* main is the exit with status 1: process_file is not entered, no input is
\* read, and the output file is as it was.
C8_EmptyTableExits ==
    [][(pc = "main_check" /\ DOMAIN line_counts = {}) =>
          /\ pc' = "exited"
          /\ status' = 1
          /\ out_file' = out_file
          /\ out_file \in {NoFile, OldFile}
          /\ in_content' = <<>>
          /\ in_lines' = <<>>
          /\ stderr' = stderr]_vars

\* C8 happens: a CSV file with two rows, neither of them valid, ended the
\* run with status 1; nothing but the two warnings was reported and no
\* output file was created.
C8_Witness ==
    /\ pc = "exited"
    /\ argc = 4
    /\ status = 1
    /\ Len(stderr) = 2
    /\ \A k \in DOMAIN stderr : stderr[k].notice = "Warning: Skipping malformed row"
    /\ in_content = <<>>
    /\ out_file = NoFile

\* C9 as stated: the table holds, under each trimmed directory of a valid
\* row (its trimmed value digit-only, or "N/A"), the value of the last valid
\* row with that directory; a skipped row changes nothing.
C9_LastValidRowWins ==
    pc = "load_loop" => TableIsExpected(row_idx)

\* C10: one chunk is written per line read, in order, and it depends on that
\* line alone; no chunk has a newline before its last character; after a
\* successful run the output has as many lines as the input.
C10_OneLineOut ==
    /\ Rewriting => Len(out_file.chunks) = line_idx
    /\ \A i \in Processed :
          /\ Chunk(i) # <<>>
          /\ \A k \in 1..(Len(Chunk(i)) - 1) : Chunk(i)[k] # NL
          /\ LET end == LabelEnd(Line(i))
             IN  IF end > Len(Line(i)) + 1
                 THEN Chunk(i) = Line(i)
                 ELSE SubSeq(Chunk(i), 1, end - 1) = SubSeq(Line(i), 1, end - 1)
          /\ \A j \in Processed : Line(i) = Line(j) => Chunk(i) = Chunk(j)
    /\ Rewriting =>
          IF Undecodable(in_content)
          THEN Len(in_lines) < Len(StoredLines(in_content))
          ELSE Len(in_lines) = Len(StoredLines(in_content))
    /\ Succeeded =>
          /\ ~out_file.torn
          /\ CountLines(Content(out_file)) = Len(StoredLines(in_content))

\* C10 happens: two lines, one rewritten and one passed through, gave two
\* lines of output.
C10_Witness ==
    /\ Succeeded
    /\ in_content = BodyFoo \o CRLF \o BodyComment
    /\ Len(out_file.chunks) = 2
    /\ CountLines(Content(out_file)) = 2

====
